---- MODULE Spec2Model ----
(***************************************************************************)
(* Thicket: the plant sidebar of the add-on (src/__init__.py), the import  *)
(* engine (src/thicket_lbw.py) and the template / instance scene model.    *)
(*                                                                         *)
(* A property record (ThicketPropGroup) is a function from the names of    *)
(* the fields that have been written to their values: items(), keys(),     *)
(* pop() and self[k] work on the written fields only (select_plant resets  *)
(* the record by popping every key), while attribute reads fall back to    *)
(* the declared default.  Percentages are whole percents, engine fractions *)
(* are counted in 1/10000, thicknesses in tenths.                          *)
(***************************************************************************)
EXTENDS Integers, Sequences, FiniteSets, TLC

\* ------------------------------------------------------------------ bounds
MaxInst == 2                 \* instances the scene may hold at rest
MaxSteps == 8               \* user actions in one session
MaxFiles == 4                \* plant files a build finds
MaxCpu == 2                  \* processor cores a build may see
MaxLib == 2                  \* plant files a rebuild between initializations finds
MaxLabels == 2               \* label entries a plant file lists for one symbol

\* --------------------------------------------------------------- constants
THICKET_GUID == "5ff1c66f282a45a488a6faa3070152a2"
VP_MAX_BRANCH_LEVEL == 4
VP_MIN_THICKNESS == 1

NoObj == 0                   \* Python None for object references

Modes == {"VIEW", "ADD", "EDIT", "SELECT", "SELECT_ADD"}
ops == {"ADD", "CANCEL", "CHANGE", "CONFIRM", "DELETE", "EDIT", "MAKE_UNIQUE"}

LodKeys == {"leaf_density", "use_lod_max_level", "lod_max_level",
            "use_lod_min_thick", "lod_min_thick", "lod_subdiv", "leaf_amount"}

\* ------------------------------------------------------------ the database
\* The open database: plant name -> record, as DBPlant / DBModel expose it.
DB ==
  [n \in {"Acer", "Betula"} |->
     IF n = "Acer"
     THEN [filepath |-> "acer.lbw.gz",
           models |-> <<"01young", "01adult">>,
           default_model |-> "01adult",
           qualifiers |-> [m \in {"01young", "01adult"} |->
                             IF m = "01young" THEN <<"summer">>
                             ELSE <<"summer", "winter">>],
           default_qualifier |-> [m \in {"01young", "01adult"} |-> "summer"]]
     ELSE [filepath |-> "betula.lbw.gz",
           models |-> <<"01adult">>,
           default_model |-> "01adult",
           qualifiers |-> [m \in {"01adult"} |-> <<"summer", "winter">>],
           default_qualifier |-> [m \in {"01adult"} |-> "summer"]]]

PlantNames == DOMAIN DB
SeqRange(s) == {s[i] : i \in 1..Len(s)}

\* ThicketDB.get_plant(filepath=...) / laubwerk.load(filepath): the plant
\* stored under the path.
PlantOfFile(filepath) == CHOOSE n \in PlantNames : DB[n].filepath = filepath

\* DBPlant.get_model(name): the requested model, or the default model.
get_model(plant, name) ==
  IF name \in SeqRange(DB[plant].models) THEN name ELSE DB[plant].default_model

\* DBModel.get_qualifier(name): the requested qualifier, or the default one.
get_qualifier(plant, model, name) ==
  IF name \in SeqRange(DB[plant].qualifiers[model]) THEN name
  ELSE DB[plant].default_qualifier[model]

\* DBIter: plants in name order; next(iter(db)) is the first of them.
FirstPlant == "Acer"

\* --------------------------------------------------------- property records
\* Declared defaults of ThicketPropGroup (an unset dynamic enum reads as the
\* first item its callback returns).
Default ==
  [name |-> "", magic |-> "", model |-> "DEFAULT", qualifier |-> "default",
   leaf_density |-> 100, viewport_lod |-> "PROXY", render_lod |-> "FULL",
   use_lod_max_level |-> FALSE, lod_max_level |-> 5,
   use_lod_min_thick |-> FALSE, lod_min_thick |-> 1, lod_subdiv |-> 3,
   leaf_amount |-> 100, batch_mode |-> FALSE, batch_name |-> "",
   batch_model |-> "01young", batch_qualifier |-> "spring",
   batch_use_lod |-> FALSE]

Fields == DOMAIN Default
EmptyProps == [k \in {} |-> 0]

\* Attribute read: the written value, else the declared default.
Get(p, k) == IF k \in DOMAIN p THEN p[k] ELSE Default[k]

\* Item write, other[k] = v: no update callback runs.
SetItem(p, k, v) == [x \in (DOMAIN p) \cup {k} |-> IF x = k THEN v ELSE p[x]]

\* ThicketPropGroup.render_lod_update
render_lod_update(p) ==
  IF Get(p, "render_lod") = "PROXY" THEN SetItem(p, "viewport_lod", "PROXY")
  ELSE p

\* Attribute write: stores the value, then runs the field's update callback.
SetAttr(p, k, v) ==
  IF k = "render_lod" THEN render_lod_update(SetItem(p, k, v))
  ELSE SetItem(p, k, v)

\* ThicketPropGroup.copy_to: every written field of self is written to other.
copy_to(self, other) ==
  [k \in (DOMAIN self) \cup (DOMAIN other) |->
     IF k \in DOMAIN self THEN self[k] ELSE other[k]]

\* ThicketPropGroup.__eq__
PropEq(self, other) ==
  \A k \in DOMAIN self : k \in DOMAIN other /\ self[k] = other[k]

\* ThicketPropGroup.eq_lod
eq_lod(self, other) ==
  \A k \in (DOMAIN self) \cap LodKeys : k \in DOMAIN other /\ self[k] = other[k]

\* ------------------------------------------------------------- the UI modes
\* The earlier wiring of the table: leaving the replacement picker of an
\* edit ends the edit.
next_mode_PickerEndsEdit(m, op) ==
  IF op \notin ops THEN m
  ELSE CASE m = "ADD" /\ op \in {"CANCEL", "CONFIRM", "DELETE"} -> "VIEW"
         [] m = "ADD" /\ op = "CHANGE" -> "SELECT_ADD"
         [] m = "EDIT" /\ op \in {"CANCEL", "CONFIRM", "DELETE"} -> "VIEW"
         [] m = "EDIT" /\ op = "CHANGE" -> "SELECT"
         [] m = "EDIT" /\ op = "ADD" -> "SELECT_ADD"
         [] m = "SELECT" /\ op \in {"CANCEL", "CONFIRM"} -> "VIEW"
         [] m = "SELECT_ADD" /\ op \in {"CANCEL", "CONFIRM"} -> "ADD"
         [] m = "VIEW" /\ op = "ADD" -> "ADD"
         [] m = "VIEW" /\ op = "EDIT" -> "EDIT"
         [] OTHER -> m

\* THICKET_PT_plant_properties.next_mode
next_mode(m, op) ==
  IF op \notin ops THEN m
  ELSE IF m = "ADD" THEN
         (IF op = "CANCEL" THEN "VIEW"
          ELSE IF op = "CHANGE" THEN "SELECT_ADD"
          ELSE IF op = "CONFIRM" THEN "VIEW"
          ELSE IF op = "DELETE" THEN "VIEW"
          ELSE m)
  ELSE IF m = "EDIT" THEN
         (IF op = "CANCEL" THEN "VIEW"
          ELSE IF op = "CHANGE" THEN "SELECT"
          ELSE IF op = "CONFIRM" THEN "VIEW"
          ELSE IF op = "DELETE" THEN "VIEW"
          ELSE IF op = "ADD" THEN "SELECT_ADD"
          ELSE m)
  ELSE IF m = "SELECT" THEN
         (IF op = "CANCEL" THEN "EDIT"
          ELSE IF op = "CONFIRM" THEN "EDIT"
          ELSE m)
  ELSE IF m = "SELECT_ADD" THEN
         (IF op = "CANCEL" THEN "ADD"
          ELSE IF op = "CONFIRM" THEN "ADD"
          ELSE m)
  ELSE IF m = "VIEW" THEN
         (IF op = "ADD" THEN "ADD"
          ELSE IF op = "EDIT" THEN "EDIT"
          ELSE m)
  ELSE m

\* ------------------------------------------------------- the import engine
\* A scene is the record S of the data blocks of the document:
\*   inst      instance object -> template (its instance_collection)
\*   col       template (collection) -> [thicket, objects, request]
\*   obj       mesh object -> [gen, name, parent, hide_*, show_name]
\*   meshes    mesh (same id as the object made with it) -> its materials
\*   materials, images   the material and image data blocks
\*   selected, active    the selection state of the view layer
\*   raised    an exception left the running operator
\*   calls     the calls of thicket_lbw.import_lbw the running operator made
\* The request of a template is the argument list thicket_lbw.import_lbw
\* was called with when the template was generated.

InstIds == 1..(MaxInst + 1)
ColIds == 1..(MaxInst + 2)
ObjIds == 1..(2 * MaxInst + 4)

MinFree(pool, used) ==
  CHOOSE i \in pool \ used : \A j \in pool \ used : i <= j

Min(a, b) == IF a < b THEN a ELSE b
Max(a, b) == IF a > b THEN a ELSE b

Restrict(f, D) == [x \in D |-> f[x]]
Last(s) == s[Len(s)]

\* A local variable: F applied to the value of e, which is computed once.
Bind(e, F(_)) == CHOOSE r \in {F(v) : v \in {e}} : TRUE

\* lbw_model.get_proxy() turned into an object by lbw_to_bl_obj(.., True)
ProxyGen(plant, model, qualifier) ==
  [kind |-> "proxy", plant |-> plant, model |-> model,
   qualifier |-> qualifier, args |-> EmptyProps]

\* lbw_model.get_mesh(**args) turned into an object by lbw_to_bl_obj(.., False)
MeshGen(plant, model, args) ==
  [kind |-> "mesh", plant |-> plant, model |-> model,
   qualifier |-> args["qualifier"], args |-> args]

\* The reduced arguments of the LOW viewport mesh.
vp_mesh_args(mesh_args) ==
  [k \in (DOMAIN mesh_args) \cup {"max_branch_level", "min_thickness"} |->
     IF k = "max_branch_level" THEN
       (IF k \in DOMAIN mesh_args
        THEN Min(VP_MAX_BRANCH_LEVEL, mesh_args[k]) ELSE VP_MAX_BRANCH_LEVEL)
     ELSE IF k = "min_thickness" THEN
       (IF k \in DOMAIN mesh_args
        THEN Max(VP_MIN_THICKNESS, mesh_args[k]) ELSE VP_MIN_THICKNESS)
     ELSE IF k = "leaf_amount" THEN (66 * mesh_args[k]) \div 100
     ELSE IF k = "leaf_density" THEN (50 * mesh_args[k]) \div 100
     ELSE IF k = "max_subdiv_level" THEN 0
     ELSE mesh_args[k]]

\* Names of the materials lbw_to_bl_obj attaches to a generated mesh.
MaterialsOf(gen) ==
  IF gen.kind = "proxy"
  THEN {<<gen.plant, "wood">>, <<gen.plant, "foliage">>}
  ELSE {<<gen.plant, "leaf">>}

\* lbw_to_bl_mat loads texture images for materials that are no proxy colour.
Textured(mat) == mat[2] = "leaf"

\* lbw_to_bl_obj: a new mesh and object; materials are looked up by name and
\* created (with their images) only when missing.
lbw_to_bl_obj(S, id, plant, suffix, gen) ==
  LET mats == MaterialsOf(gen)
      created == mats \ S.materials
  IN [S EXCEPT
        !.obj = [o \in (DOMAIN S.obj) \cup {id} |->
                   IF o = id
                   THEN [gen |-> gen, name |-> <<plant, suffix>>,
                         parent |-> NoObj, hide_render |-> FALSE,
                         hide_viewport |-> FALSE, hide_select |-> FALSE,
                         show_name |-> FALSE]
                   ELSE S.obj[o]],
        !.meshes = [m \in (DOMAIN S.meshes) \cup {id} |->
                      IF m = id THEN mats ELSE S.meshes[m]],
        !.materials = S.materials \cup mats,
        !.images = S.images \cup {m \in created : Textured(m)}]

SetObj(S, id, rec) == [S EXCEPT !.obj[id] = rec]

\* thicket_lbw.import_lbw, "Create the viewport object": returns <<S, obj_viewport>>
ImportViewport(S, req, plant, lbw_model, obj_viewport) ==
  IF req.viewport_lod # req.render_lod THEN
    IF obj_viewport # NoObj THEN
      <<SetObj(S, obj_viewport, [S.obj[obj_viewport] EXCEPT !.name = <<plant, "">>]),
        obj_viewport>>
    ELSE IF req.viewport_lod = "PROXY" THEN
      LET id == MinFree(ObjIds, DOMAIN S.obj \cup DOMAIN S.meshes)
      IN <<lbw_to_bl_obj(S, id, plant, "",
                         ProxyGen(plant, lbw_model, req.mesh_args["qualifier"])), id>>
    ELSE IF req.viewport_lod = "LOW" THEN
      LET id == MinFree(ObjIds, DOMAIN S.obj \cup DOMAIN S.meshes)
      IN <<lbw_to_bl_obj(S, id, plant, "",
                         MeshGen(plant, lbw_model, vp_mesh_args(req.mesh_args))), id>>
    ELSE <<S, obj_viewport>>
  ELSE <<S, obj_viewport>>

\* thicket_lbw.import_lbw, "Create the render object": returns <<S, obj_render>>
ImportRender(S, req, plant, lbw_model, obj_render) ==
  IF obj_render # NoObj THEN
    <<SetObj(S, obj_render, [S.obj[obj_render] EXCEPT !.name = <<plant, " (render)">>]),
      obj_render>>
  ELSE IF req.render_lod = "PROXY" THEN
    LET id == MinFree(ObjIds, DOMAIN S.obj \cup DOMAIN S.meshes)
    IN <<lbw_to_bl_obj(S, id, plant, " (render)",
                       ProxyGen(plant, lbw_model, req.mesh_args["qualifier"])), id>>
  ELSE
    LET id == MinFree(ObjIds, DOMAIN S.obj \cup DOMAIN S.meshes)
    IN <<lbw_to_bl_obj(S, id, plant, " (render)",
                       MeshGen(plant, lbw_model, req.mesh_args)), id>>

\* thicket_lbw.import_lbw, "Setup viewport and render visibility" (an object
\* assigned as its own parent ends up without a parent)
SetupVisibility(S, vp, rd) ==
  IF vp # NoObj THEN
    LET S1 == SetObj(S, vp, [S.obj[vp] EXCEPT !.parent = NoObj,
                                              !.hide_render = TRUE,
                                              !.show_name = TRUE])
    IN SetObj(S1, rd, [S1.obj[rd] EXCEPT !.show_name = FALSE,
                                         !.parent = IF rd = vp THEN NoObj ELSE vp,
                                         !.hide_viewport = TRUE,
                                         !.hide_select = TRUE])
  ELSE
    SetObj(S, rd, [S.obj[rd] EXCEPT !.show_name = TRUE,
                                    !.parent = NoObj,
                                    !.hide_render = FALSE,
                                    !.hide_viewport = FALSE,
                                    !.hide_select = FALSE])

\* thicket_lbw.import_lbw, "Setup collection hierarchy" to the end.  Linking
\* one object twice into the new collection raises, which leaves the
\* collection behind without an instance.
LinkAndInstance(S, req, vp, rd) ==
  LET c == MinFree(ColIds, DOMAIN S.col)
      i == MinFree(InstIds, DOMAIN S.inst)
      objects == IF vp # NoObj /\ vp # rd THEN <<vp, rd>>
                 ELSE IF vp # NoObj THEN <<vp>> ELSE <<rd>>
  IN Bind([S EXCEPT !.col = [x \in (DOMAIN S.col) \cup {c} |->
                               IF x = c
                               THEN [thicket |-> EmptyProps,
                                     objects |-> objects,
                                     request |-> req]
                               ELSE S.col[x]]],
          LAMBDA S4 :
            IF vp # NoObj /\ vp = rd
            THEN [scene |-> [S4 EXCEPT !.raised = TRUE], plant_obj |-> NoObj]
            ELSE [scene |-> [S4 EXCEPT
                               !.inst = [x \in (DOMAIN S4.inst) \cup {i} |->
                                           IF x = i THEN c ELSE S4.inst[x]],
                               !.selected = {i},
                               !.active = i],
                  plant_obj |-> i])

\* thicket_lbw.import_lbw: returns [scene, plant_obj]
thicket_lbw_import_lbw(S, req, obj_viewport, obj_render) ==
  LET plant == PlantOfFile(req.filepath)
      lbw_model == IF req.model \in SeqRange(DB[plant].models)
                   THEN req.model ELSE DB[plant].default_model
  IN Bind(ImportViewport([S EXCEPT !.calls = @ + 1], req, plant, lbw_model,
                         obj_viewport), LAMBDA V :
     Bind(ImportRender(V[1], req, plant, lbw_model, obj_render), LAMBDA R :
     Bind(SetupVisibility(R[1], V[2], R[2]), LAMBDA S3 :
       LinkAndInstance(S3, req, V[2], R[2]))))

\* ----------------------------------------------- ThicketPropGroup.import_lbw
\* The arguments import_lbw hands to the engine (orig_tp is read only where
\* the code reads it).
ResolvedRequest(self, orig_tp) ==
  LET batch == Get(self, "batch_mode")
      name == IF batch
              THEN (IF Get(self, "batch_name") = "" THEN Get(orig_tp, "name")
                    ELSE Get(self, "batch_name"))
              ELSE Get(self, "name")
      tp == IF batch /\ ~Get(self, "batch_use_lod") THEN orig_tp ELSE self
      model == IF batch
               THEN (IF Get(self, "batch_model") = "UNCHANGED"
                     THEN Get(orig_tp, "model") ELSE Get(self, "batch_model"))
               ELSE Get(self, "model")
      qualifier == IF batch
                   THEN (IF Get(self, "batch_qualifier") = "UNCHANGED"
                         THEN Get(orig_tp, "qualifier")
                         ELSE Get(self, "batch_qualifier"))
                   ELSE Get(self, "qualifier")
      keys == {"qualifier", "leaf_density", "max_subdiv_level", "leaf_amount"}
                \cup (IF Get(tp, "use_lod_max_level") THEN {"max_branch_level"} ELSE {})
                \cup (IF Get(tp, "use_lod_min_thick") THEN {"min_thickness"} ELSE {})
  IN [filepath |-> DB[name].filepath,
      model |-> model,
      viewport_lod |-> Get(tp, "viewport_lod"),
      render_lod |-> Get(tp, "render_lod"),
      mesh_args |->
        [k \in keys |->
           IF k = "qualifier" THEN qualifier
           ELSE IF k = "leaf_density" THEN Get(tp, "leaf_density") * 100
           ELSE IF k = "max_branch_level" THEN Get(tp, "lod_max_level")
           ELSE IF k = "min_thickness" THEN Get(tp, "lod_min_thick")
           ELSE IF k = "max_subdiv_level" THEN Get(tp, "lod_subdiv")
           ELSE Get(tp, "leaf_amount") * 100]]

\* The batch branch reads orig_tp, which is unbound without an original.
NeedsOriginal(self) ==
  /\ Get(self, "batch_mode")
  /\ \/ Get(self, "batch_name") = ""
     \/ ~Get(self, "batch_use_lod")
     \/ Get(self, "batch_model") = "UNCHANGED"
     \/ Get(self, "batch_qualifier") = "UNCHANGED"

\* "Determine if either the FULL render object or LOW viewport object can be
\* reused": returns <<viewport_obj, render_obj>>
ReuseObjects(self, orig_tp, objects) ==
  IF /\ Get(self, "name") = Get(orig_tp, "name")
     /\ Get(self, "model") = Get(orig_tp, "model")
     /\ Get(self, "qualifier") = Get(orig_tp, "qualifier")
  THEN
    LET r1 == IF eq_lod(self, orig_tp)
                 /\ Get(self, "render_lod") = Get(orig_tp, "render_lod")
              THEN Last(objects) ELSE NoObj
        v == IF /\ Get(self, "viewport_lod") # Get(self, "render_lod")
                /\ Get(self, "viewport_lod") = "PROXY"
                /\ Get(self, "viewport_lod") = Get(orig_tp, "viewport_lod")
             THEN objects[1] ELSE NoObj
        r2 == IF /\ Get(self, "render_lod") = "PROXY"
                 /\ Get(orig_tp, "viewport_lod") = "PROXY"
                 /\ Get(self, "render_lod") # Get(orig_tp, "render_lod")
              THEN objects[1] ELSE r1
    IN <<v, r2>>
  ELSE <<NoObj, NoObj>>

\* ThicketPropGroup.import_lbw(original): returns [scene, plant_obj]
import_lbw(S, self, original) ==
  IF original = NoObj /\ NeedsOriginal(self)
  THEN [scene |-> [S EXCEPT !.raised = TRUE], plant_obj |-> NoObj]
  ELSE
    LET orig_template == IF original # NoObj THEN S.inst[original] ELSE NoObj
        orig_tp == IF original # NoObj THEN S.col[orig_template].thicket
                   ELSE EmptyProps
    IN Bind(ResolvedRequest(self, orig_tp), LAMBDA req :
       Bind(IF original # NoObj
            THEN ReuseObjects(self, orig_tp, S.col[orig_template].objects)
            ELSE <<NoObj, NoObj>>, LAMBDA reuse :
       Bind(thicket_lbw_import_lbw(S, req, reuse[1], reuse[2]), LAMBDA E :
         IF E.scene.raised THEN E
         ELSE
           LET c == E.scene.inst[E.plant_obj]
           IN [scene |-> [E.scene EXCEPT
                            !.col[c].thicket =
                               SetItem(copy_to(self, E.scene.col[c].thicket),
                                       "magic", THICKET_GUID)],
               plant_obj |-> E.plant_obj])))

\* ------------------------------------------- template / instance scene model
\* Collection.users_dupli_group: the instances that reference the template.
users_dupli_group(S, t) == {i \in DOMAIN S.inst : S.inst[i] = t}

\* Object.users: the collections the object is linked into.
obj_users(S, o) ==
  Cardinality({c \in DOMAIN S.col : o \in SeqRange(S.col[c].objects)})

mesh_users(S, m) == IF m \in DOMAIN S.obj THEN 1 ELSE 0
mat_users(S, n) == Cardinality({m \in DOMAIN S.meshes : n \in S.meshes[m]})
img_users(S, i) == IF i \in S.materials THEN 1 ELSE 0

\* is_thicket_instance (the add-on is ready)
is_thicket_instance(S, o) ==
  /\ o \in DOMAIN S.inst
  /\ S.inst[o] \in DOMAIN S.col
  /\ Get(S.col[S.inst[o]].thicket, "magic") = THICKET_GUID

\* bpy.data.objects.remove(o): the object goes, its children lose their parent.
RemoveObject(S, o) ==
  [S EXCEPT !.obj = [x \in (DOMAIN S.obj) \ {o} |->
                       IF S.obj[x].parent = o
                       THEN [S.obj[x] EXCEPT !.parent = NoObj]
                       ELSE S.obj[x]]]

\* The loop of delete_plant_template over template.objects, from index k on.
RECURSIVE UnlinkObjects(_, _, _)
UnlinkObjects(S, t, objects) ==
  IF objects = <<>> THEN S
  ELSE
    LET o == Head(objects)
    IN Bind([S EXCEPT !.col[t].objects =
               SelectSeq(S.col[t].objects, LAMBDA x : x # o)], LAMBDA S1 :
       Bind(IF obj_users(S1, o) = 0 THEN RemoveObject(S1, o) ELSE S1, LAMBDA S2 :
         UnlinkObjects(S2, t, Tail(objects))))

\* The three sweeps of delete_plant_template: meshes, materials, images.
SweepOrphans(S) ==
  Bind([S EXCEPT !.meshes =
          Restrict(S.meshes, {m \in DOMAIN S.meshes : mesh_users(S, m) # 0})],
       LAMBDA S1 :
  Bind([S1 EXCEPT !.materials = {n \in S1.materials : mat_users(S1, n) # 0}],
       LAMBDA S2 :
    [S2 EXCEPT !.images = {i \in S2.images : img_users(S2, i) # 0}]))

\* delete_plant_template without the test of the template's users.
delete_plant_template_NoUsersTest(S, template) ==
  Bind(UnlinkObjects(S, template, S.col[template].objects), LAMBDA S1 :
  Bind([S1 EXCEPT !.col = Restrict(S1.col, (DOMAIN S1.col) \ {template})],
       LAMBDA S2 : SweepOrphans(S2)))

\* delete_plant_template
delete_plant_template(S, template) ==
  IF users_dupli_group(S, template) = {} THEN
    Bind(UnlinkObjects(S, template, S.col[template].objects), LAMBDA S1 :
    Bind([S1 EXCEPT !.col = Restrict(S1.col, (DOMAIN S1.col) \ {template})],
         LAMBDA S2 : SweepOrphans(S2)))
  ELSE S

\* delete_plant
delete_plant(S, instance) ==
  LET template == S.inst[instance]
  IN Bind([S EXCEPT !.inst = Restrict(S.inst, (DOMAIN S.inst) \ {instance}),
                    !.selected = S.selected \ {instance},
                    !.active = IF S.active = instance THEN NoObj ELSE S.active],
          LAMBDA S1 : delete_plant_template(S1, template))

\* A Make Unique that moves every user of the template to the copy.
make_unique_MovesAllUsers(S, instance) ==
  LET template == S.inst[instance]
      new_template == MinFree(ColIds, DOMAIN S.col)
  IN IF Cardinality(users_dupli_group(S, template)) = 1 THEN S
     ELSE [S EXCEPT
             !.col = [x \in (DOMAIN S.col) \cup {new_template} |->
                        IF x = new_template THEN S.col[template] ELSE S.col[x]],
             !.inst = [i \in DOMAIN S.inst |->
                         IF S.inst[i] = template THEN new_template
                         ELSE S.inst[i]]]

\* THICKET_OT_make_unique.make_unique: Collection.copy() links the same
\* objects into the copy and copies the custom properties.
make_unique(S, instance) ==
  LET template == S.inst[instance]
      new_template == MinFree(ColIds, DOMAIN S.col)
  IN IF Cardinality(users_dupli_group(S, template)) = 1 THEN S
     ELSE [S EXCEPT
             !.col = [x \in (DOMAIN S.col) \cup {new_template} |->
                        IF x = new_template THEN S.col[template] ELSE S.col[x]],
             !.inst[instance] = new_template]

\* THICKET_OT_update_plant.update_plant
update_plant(S, instance, tp) ==
  LET template == S.inst[instance]
  IN Bind(import_lbw(S, tp, instance), LAMBDA I :
       IF I.scene.raised THEN I.scene
       ELSE
         LET new_template == I.scene.inst[I.plant_obj]
         IN Bind([I.scene EXCEPT
                    !.inst = [i \in DOMAIN I.scene.inst |->
                                IF I.scene.inst[i] = template THEN new_template
                                ELSE I.scene.inst[i]]], LAMBDA S1 :
            Bind(delete_plant(S1, I.plant_obj), LAMBDA S2 :
              delete_plant_template(S2, template))))

\* ------------------------------------------------------ the plant database
\* thicket.db on disk and the ThicketDB object share one shape: kind tells
\* what the file holds ("missing", "empty_file", "garbage": text that is no
\* JSON, "nokeys": JSON without "info", "noplants": JSON without "plants",
\* "db": a database) or what the object is ("None": no object, "nodict": an
\* object whose _db was never set, "noplants", "db").
SCHEMA_VERSION == 2
OldSchema == SCHEMA_VERSION - 1

EmptyMap == [k \in {} |-> 0]

Handle(kind, schema, plants, labels) ==
  [kind |-> kind, schema |-> schema, plants |-> plants, labels |-> labels]

NoneDb == Handle("None", 0, EmptyMap, EmptyMap)
NoDict == Handle("nodict", 0, EmptyMap, EmptyMap)
MissingFile == Handle("missing", 0, EmptyMap, EmptyMap)

\* ThicketDB.initialize: a database of the current schema without plants.
initialize == Handle("db", SCHEMA_VERSION, EmptyMap, EmptyMap)

\* ThicketDB.save: json.dump of _db; the file then holds the dictionary.
save(d) == d

\* ThicketDB.plant_count
db_plant_count(d) == Cardinality(DOMAIN d.plants)

\* ThicketDB.parse_plant: the record of the plant a file holds, and its
\* labels: the plant's own and the qualifiers', as this file spells them.
PlantRec(f, n) == [name |-> n, filepath |-> f, md5 |-> f]
PlantLabels(f, n) == [k \in {n, "summer"} |-> f]

\* What a worker can leave on its stdout: the record parse_plant_json prints
\* ("record"), nothing ("empty", a crashed worker), text that is no JSON
\* ("text"), JSON without the "plant" part ("nokeys"), JSON with the "plant"
\* part and without "labels" ("nolabels").
Outputs ==
  [kind : {"record"}, name : PlantNames]
    \cup {[kind |-> k, name |-> ""] : k \in {"empty", "text", "nokeys"}}
    \cup {[kind |-> "nolabels", name |-> FirstPlant]}

Malformed(out) == out.kind # "record"

\* ThicketDB.update_labels
update_labels(d, labels) == [d EXCEPT !.labels = labels @@ d.labels]

\* ThicketDB.build, the body of its try statement for the worker of file f:
\* json.loads raises JSONDecodeError, which is logged; a missing key raises
\* KeyError, which nothing catches.
MergePlant_KeepFirst(d, f, out) ==
  IF out.kind = "record"
  THEN [db |-> update_labels([d EXCEPT !.plants = d.plants @@ (out.name :> PlantRec(f, out.name))],
                             PlantLabels(f, out.name)),
        logged |-> FALSE, raised |-> "none"]
  ELSE IF out.kind \in {"empty", "text"}
  THEN [db |-> d, logged |-> TRUE, raised |-> "none"]
  ELSE [db |-> d, logged |-> FALSE, raised |-> "KeyError"]

MergePlant(d, f, out) ==
  IF out.kind = "record"
  THEN [db |-> update_labels([d EXCEPT !.plants = (out.name :> PlantRec(f, out.name)) @@ d.plants],
                             PlantLabels(f, out.name)),
        logged |-> FALSE, raised |-> "none"]
  ELSE IF out.kind \in {"empty", "text"}
  THEN [db |-> d, logged |-> TRUE, raised |-> "none"]
  ELSE IF out.kind = "nokeys"
  THEN [db |-> d, logged |-> FALSE, raised |-> "KeyError"]
  ELSE [db |-> [d EXCEPT !.plants = (out.name :> PlantRec(f, out.name)) @@ d.plants],
        logged |-> FALSE, raised |-> "KeyError"]

\* plant_files.pop() takes the last file: workers are submitted in the
\* reverse of glob's order.
RECURSIVE Reverse(_)
Reverse(s) == IF s = <<>> THEN <<>> ELSE Reverse(Tail(s)) \o <<Head(s)>>

\* ThicketDB.build run to its end, as the handlers that call it see it: the
\* database it leaves in memory, the exception that escaped, and whether
\* save() was reached.
RECURSIVE MergeAll(_, _, _)
MergeAll(d, order, out) ==
  IF order = <<>> THEN [db |-> d, raised |-> "none"]
  ELSE LET m == MergePlant(d, Head(order), out[Head(order)])
       IN IF m.raised # "none" THEN [db |-> m.db, raised |-> m.raised]
          ELSE MergeAll(m.db, Tail(order), out)

build(files, out) == MergeAll(initialize, Reverse(files), out)

\* ThicketDB.__init__: the exception it raises ("none" when it returns), the
\* object the caller gets, and the file it leaves.
ThicketDB_init_CreateOverOld(file, create) ==
  IF file.kind = "missing" \/ (create /\ file.kind = "db" /\ file.schema < SCHEMA_VERSION)
  THEN IF create
       THEN [signal |-> "none", db |-> initialize, file |-> save(initialize)]
       ELSE [signal |-> "FileNotFoundError", db |-> NoneDb, file |-> file]
  ELSE IF file.kind \in {"empty_file", "garbage"}
  THEN [signal |-> "none", db |-> NoDict, file |-> file]
  ELSE IF file.kind = "nokeys"
  THEN [signal |-> "KeyError", db |-> NoneDb, file |-> file]
  ELSE IF file.schema < SCHEMA_VERSION
  THEN [signal |-> "ThicketDBOldSchemaError", db |-> NoneDb, file |-> file]
  ELSE [signal |-> "none", db |-> file, file |-> file]

ThicketDB_init_CreateAlways(file, create) ==
  IF file.kind = "missing"
  THEN [signal |-> "none", db |-> initialize, file |-> save(initialize)]
  ELSE IF file.kind \in {"empty_file", "garbage"}
  THEN [signal |-> "none", db |-> NoDict, file |-> file]
  ELSE IF file.kind = "nokeys"
  THEN [signal |-> "KeyError", db |-> NoneDb, file |-> file]
  ELSE IF file.schema < SCHEMA_VERSION
  THEN [signal |-> "ThicketDBOldSchemaError", db |-> NoneDb, file |-> file]
  ELSE [signal |-> "none", db |-> file, file |-> file]

ThicketDB_init(file, create) ==
  IF file.kind = "missing"
  THEN IF create
       THEN [signal |-> "none", db |-> initialize, file |-> save(initialize)]
       ELSE [signal |-> "FileNotFoundError", db |-> NoneDb, file |-> file]
  ELSE IF file.kind \in {"empty_file", "garbage"}
  THEN [signal |-> "none", db |-> NoDict, file |-> file]
  ELSE IF file.kind = "nokeys"
  THEN [signal |-> "KeyError", db |-> NoneDb, file |-> file]
  ELSE IF file.schema < SCHEMA_VERSION
  THEN [signal |-> "ThicketDBOldSchemaError", db |-> NoneDb, file |-> file]
  ELSE [signal |-> "none", db |-> file, file |-> file]

\* One ThicketDB(...) call as the handlers record it.
OpenCall(file, create) ==
  LET o == ThicketDB_init(file, create)
  IN [create |-> create, before |-> file, signal |-> o.signal, db |-> o.db,
      after |-> o.file]

\* ThicketStatus
Status(plants, sdk, imported, ready) ==
  [lbw_plants_valid |-> plants, lbw_sdk_valid |-> sdk, imported |-> imported,
   ready |-> ready]

\* The preferences: whether lbw_plants_path and lbw_sdk_path are directories
\* and whether the laubwerk module loads from the latter.
Prefs == [plants_dir : BOOLEAN, sdk_dir : BOOLEAN, sdk_loads : BOOLEAN]

InitResult(st, d, file, exc, calls) ==
  [status |-> st, db |-> d, file |-> file, raised |-> exc, opens |-> calls]

\* thicket_init
thicket_init(p, file) ==
  IF ~p.sdk_dir \/ ~p.sdk_loads
  THEN InitResult(Status(p.plants_dir, FALSE, FALSE, FALSE), NoneDb, file,
                  "none", <<>>)
  ELSE IF ~p.plants_dir
  THEN InitResult(Status(FALSE, TRUE, FALSE, FALSE), NoneDb, file, "none", <<>>)
  ELSE
    LET o1 == OpenCall(file, FALSE)
        file1 == IF o1.signal = "ThicketDBOldSchemaError" THEN MissingFile
                 ELSE o1.after
    IN IF o1.signal = "KeyError"
       THEN InitResult(Status(TRUE, TRUE, TRUE, FALSE), NoneDb, file1,
                       "KeyError", <<o1>>)
       ELSE IF o1.db.kind = "nodict"
       THEN InitResult(Status(TRUE, TRUE, TRUE, FALSE), o1.db, file1,
                       "AttributeError", <<o1>>)
       ELSE IF o1.db.kind = "noplants"
       THEN InitResult(Status(TRUE, TRUE, TRUE, FALSE), o1.db, file1,
                       "KeyError", <<o1>>)
       ELSE IF o1.db.kind = "None" \/ db_plant_count(o1.db) = 0
       THEN LET o2 == OpenCall(file1, TRUE)
            IN InitResult(Status(TRUE, TRUE, TRUE, FALSE), o2.db, o2.after,
                          o2.signal, <<o1, o2>>)
       ELSE InitResult(Status(TRUE, TRUE, TRUE, TRUE), o1.db, file1, "none",
                       <<o1>>)

\* The database the sidebar works on, as Initialization opened it.
ReadyDb ==
  Handle("db", SCHEMA_VERSION,
         [n \in PlantNames |-> PlantRec(IF n = FirstPlant THEN 1 ELSE 2, n)],
         [k \in PlantNames \cup {"summer"} |-> IF k = FirstPlant THEN 1 ELSE 2])

\* ------------------------------------------------------------------- state
VARIABLES
  thicket_ui_mode,   \* the sidebar mode
  thicket_ui_obj,    \* the object the sidebar last drew for
  wm_thicket,        \* window_manager.thicket, the staging record
  instances,         \* instance object -> its instance_collection
  collections,       \* template -> [thicket, objects, request]
  objects,           \* generated mesh objects
  meshes,            \* mesh data blocks
  materials,         \* material data blocks
  images,            \* image data blocks
  selected,          \* context.selected_objects
  active,            \* context.active_object
  seeded,            \* the instance Edit copied the staging record from
  steps              \* user actions taken so far

vars == <<thicket_ui_mode, thicket_ui_obj, wm_thicket, instances, collections,
          objects, meshes, materials, images, selected, active, seeded, steps>>

\* The plant database, Initialization and a running ThicketDB.build.
VARIABLES
  db,                \* the open database object (the global db, or the tool's)
  db_file,           \* thicket.db on disk
  thicket_status,    \* the ThicketStatus flags
  prefs,             \* the add-on preferences Initialization last ran with
  last_op,           \* the handler that ran last
  raised,            \* the exception that escaped it, or "none"
  opens,             \* the ThicketDB(...) calls it made, in order
  pc,                \* position of the running build
  lib,               \* the plant files glob returned
  outs,              \* what each file's worker prints on its stdout
  cpu_count,         \* os.cpu_count(), 0 for None
  plant_files,       \* files not yet handed to a worker
  jobs,              \* the deque of spawned workers
  job,               \* the worker communicate() waits for, 0 for none
  exited,            \* workers whose process has exited
  overtaken,         \* a worker has exited before one submitted earlier
  submitted,         \* workers in the order they were spawned
  joined,            \* workers in the order communicate() returned
  merged,            \* workers whose plant record was merged, in order
  errors,            \* the file named by each logged decode error
  writes             \* writes of thicket.db by the build

ivars == <<db, db_file, thicket_status, prefs, last_op, raised, opens>>
bvars == <<pc, lib, outs, cpu_count, plant_files, jobs, job, exited, overtaken,
           submitted, joined, merged, errors, writes>>

\* A call of the database interface or of a command-line tool.
VARIABLES
  tool_in,           \* the arguments of the call that ran last
  tool_out           \* what it returned, printed and exited with

tvars == <<tool_in, tool_out>>
allvars == <<vars, ivars, bvars, tvars>>

\* Scene objects that are no Thicket instance (one, such as the camera).
PlainObjs == {MaxInst + 2}

Scene ==
  [inst |-> instances, col |-> collections, obj |-> objects, meshes |-> meshes,
   materials |-> materials, images |-> images, selected |-> selected,
   active |-> active, raised |-> FALSE, calls |-> 0]

SceneObjects(S) == (DOMAIN S.inst) \cup PlainObjs

RECURSIVE SetToSeq(_)
SetToSeq(X) ==
  IF X = {} THEN <<>>
  ELSE LET m == CHOOSE x \in X : \A y \in X : x <= y
       IN <<m>> \o SetToSeq(X \ {m})

\* What THICKET_PT_plant_properties.draw computes from the selection.
Plants(S) == {p \in S.selected : is_thicket_instance(S, p)}
plant_count(S) == Cardinality(Plants(S))
Batch(S) == plant_count(S) > 1
Siblings(S) ==
  Cardinality({i \in DOMAIN S.inst :
                 \E p \in Plants(S) :
                    /\ S.inst[p] = S.inst[i]
                    /\ Cardinality(users_dupli_group(S, S.inst[p])) > 1})

\* THICKET_PT_plant_properties.draw, the part that writes the globals:
\* returns <<thicket_ui_mode, thicket_ui_obj>>
draw(S, mode, ui_obj) ==
  LET instance == S.active
      mode1 == IF instance # ui_obj /\ mode = "EDIT" THEN "VIEW" ELSE mode
      obj1 == IF instance # ui_obj THEN NoObj ELSE ui_obj
      obj2 == IF instance # NoObj /\ is_thicket_instance(S, instance)
              THEN instance ELSE obj1
  IN <<mode1, obj2>>

\* The operator has run: its scene and mode are written and the tagged
\* redraw runs the panel's draw.
Finish(S, mode, tp) ==
  /\ steps < MaxSteps
  /\ steps' = steps + 1
  /\ UNCHANGED <<ivars, bvars, tvars>>
  /\ wm_thicket' = tp
  /\ \E T \in {S} : \E d \in {draw(T, mode, thicket_ui_obj)} :
       /\ instances' = T.inst
       /\ collections' = T.col
       /\ objects' = T.obj
       /\ meshes' = T.meshes
       /\ materials' = T.materials
       /\ images' = T.images
       /\ selected' = T.selected
       /\ active' = T.active
       /\ thicket_ui_mode' = d[1]
       /\ thicket_ui_obj' = d[2]
       /\ seeded' = IF d[1] \notin {"EDIT", "SELECT"} THEN NoObj
                    ELSE IF thicket_ui_mode = "VIEW" THEN T.active
                    ELSE seeded

\* select_plant
select_plant(tp, filepath, defaults) ==
  LET plant == PlantOfFile(filepath)
      old_model == Get(tp, "model")
      old_qual == Get(tp, "qualifier")
      tp1 == IF defaults THEN EmptyProps ELSE tp
      tp2 == SetAttr(tp1, "name", plant)
      tp3 == IF Get(tp2, "batch_mode") THEN SetAttr(tp2, "batch_name", plant)
             ELSE tp2
      model == get_model(plant, old_model)
  IN SetAttr(SetAttr(tp3, "model", model), "qualifier",
             get_qualifier(plant, model, old_qual))

\* No build is running.
BuildIdle ==
  /\ pc = "idle"
  /\ lib = <<>>
  /\ outs = <<>>
  /\ cpu_count = 0
  /\ plant_files = <<>>
  /\ jobs = <<>>
  /\ job = 0
  /\ exited = {}
  /\ overtaken = FALSE
  /\ submitted = <<>>
  /\ joined = <<>>
  /\ merged = <<>>
  /\ errors = <<>>
  /\ writes = 0

\* No call of the interface or of a tool has been made.
ToolIdle ==
  /\ tool_in = [op |-> "none"]
  /\ tool_out = [op |-> "none"]

\* Initialization has found the paths valid and a populated database.
DbReady ==
  /\ db = ReadyDb
  /\ db_file = save(ReadyDb)
  /\ thicket_status = Status(TRUE, TRUE, TRUE, TRUE)
  /\ prefs = [plants_dir |-> TRUE, sdk_dir |-> TRUE, sdk_loads |-> TRUE]
  /\ last_op = "none"
  /\ raised = "none"
  /\ opens = <<>>

\* The module's globals and an empty document.
UiIdle ==
  /\ thicket_ui_mode = "VIEW"
  /\ thicket_ui_obj = NoObj
  /\ wm_thicket = EmptyProps
  /\ instances = [i \in {} |-> 0]
  /\ collections = [c \in {} |-> 0]
  /\ objects = [o \in {} |-> 0]
  /\ meshes = [m \in {} |-> {}]
  /\ materials = {}
  /\ images = {}
  /\ selected = {}
  /\ active = NoObj
  /\ seeded = NoObj
  /\ steps = 0

Init == UiIdle /\ DbReady /\ BuildIdle /\ ToolIdle

\* ----------------------------------------------------------------- actions
\* The values the user enters into a field of the panel.
EditChoices ==
  [model |-> {"01young", "01adult"},
   qualifier |-> {"summer", "winter"},
   batch_model |-> {"01young"},
   batch_qualifier |-> {"UNCHANGED"},
   batch_use_lod |-> {TRUE},
   leaf_density |-> {50, 100},
   viewport_lod |-> {"LOW", "FULL"},
   render_lod |-> {"PROXY", "FULL"}]

\* THICKET_PT_plant_properties.draw_props: the fields the panel offers, and
\* the items of the two plant-dependent enums.
PropEnabled(S, tp, k, v) ==
  LET batch == Batch(S)
      lod == ~batch \/ Get(tp, "batch_use_lod")
  IN CASE k = "model" ->
            ~batch /\ v \in SeqRange(DB[Get(tp, "name")].models)
       [] k = "qualifier" ->
            /\ ~batch
            /\ v \in SeqRange(DB[Get(tp, "name")].qualifiers[
                                get_model(Get(tp, "name"), Get(tp, "model"))])
       [] k \in {"batch_model", "batch_qualifier", "batch_use_lod"} -> batch
       [] k = "viewport_lod" -> lod /\ Get(tp, "render_lod") # "PROXY"
       [] k \in {"leaf_density", "render_lod"} -> lod
       [] OTHER -> FALSE

\* The user edits one field of the staging record.
SetProp ==
  /\ thicket_ui_mode \in {"ADD", "EDIT"}
  /\ Get(wm_thicket, "name") \in PlantNames
  /\ \E k \in DOMAIN EditChoices : \E v \in EditChoices[k] :
       /\ PropEnabled(Scene, wm_thicket, k, v)
       /\ Finish(Scene, thicket_ui_mode, SetAttr(wm_thicket, k, v))

\* The user changes the selection and the active object of the view layer.
SelectObjects ==
  \E sel \in SUBSET SceneObjects(Scene) : \E act \in sel \cup {NoObj} :
    /\ <<sel, act>> # <<selected, active>>
    /\ Finish([Scene EXCEPT !.selected = sel, !.active = act],
              thicket_ui_mode, wm_thicket)

\* The user duplicates an instance object: the copy references the same
\* template and becomes the selected, active object.
DuplicateInstance ==
  /\ Cardinality(DOMAIN instances) < MaxInst
  /\ \E i \in DOMAIN instances :
       LET j == MinFree(InstIds, DOMAIN instances)
       IN Finish([Scene EXCEPT
                    !.inst = [x \in (DOMAIN instances) \cup {j} |->
                                IF x = j THEN instances[i] ELSE instances[x]],
                    !.selected = {j},
                    !.active = j],
                 thicket_ui_mode, wm_thicket)

\* THICKET_OT_change_mode.execute, for the buttons draw wires to it.
ChangeMode ==
  \E op \in {"ADD", "CANCEL", "CHANGE"} :
    /\ CASE op = "ADD" -> thicket_ui_mode = "VIEW"
         [] op = "CANCEL" -> thicket_ui_mode \in {"ADD", "SELECT", "SELECT_ADD"}
         [] op = "CHANGE" ->
              /\ thicket_ui_mode \in {"ADD", "EDIT"}
              /\ Batch(Scene) \/ Get(wm_thicket, "name") \in PlantNames
    /\ LET nm == next_mode(thicket_ui_mode, op)
       IN Finish(Scene, nm,
                 IF nm = "ADD" /\ Get(wm_thicket, "name") = ""
                 THEN select_plant(wm_thicket, DB[FirstPlant].filepath, TRUE)
                 ELSE wm_thicket)

\* THICKET_OT_select_plant.execute
SelectPlant ==
  /\ thicket_ui_mode \in {"SELECT", "SELECT_ADD"}
  /\ \E n \in PlantNames :
       LET nm == next_mode(thicket_ui_mode, "CONFIRM")
       IN Finish(Scene, nm, select_plant(wm_thicket, DB[n].filepath, nm = "ADD"))

\* THICKET_OT_edit_plant.execute
EditPlant ==
  /\ thicket_ui_mode = "VIEW"
  /\ plant_count(Scene) >= 1
  /\ is_thicket_instance(Scene, active)
  /\ LET tp == copy_to(collections[instances[active]].thicket, wm_thicket)
         tp1 == SetAttr(tp, "batch_mode", Batch(Scene))
         tp2 == SetAttr(tp1, "batch_name", "")
         tp3 == SetAttr(tp2, "batch_model", "UNCHANGED")
         tp4 == SetAttr(tp3, "batch_qualifier", "UNCHANGED")
     IN Finish(Scene, next_mode(thicket_ui_mode, "EDIT"), tp4)

\* Room for one more template with its objects and its instance.
CanImport(S) ==
  /\ Cardinality(DOMAIN S.col) < Cardinality(ColIds)
  /\ Cardinality(DOMAIN S.obj) + 2 <= Cardinality(ObjIds)

\* THICKET_OT_load_plant.execute
LoadPlant ==
  /\ thicket_ui_mode = "ADD"
  /\ Cardinality(DOMAIN instances) < MaxInst
  /\ CanImport(Scene)
  /\ \E I \in {import_lbw(Scene, wm_thicket, NoObj)} :
       IF I.scene.raised
       THEN Finish(I.scene, thicket_ui_mode, wm_thicket)
       ELSE Finish(I.scene, next_mode(thicket_ui_mode, "CONFIRM"),
                   copy_to(I.scene.col[I.scene.inst[I.plant_obj]].thicket,
                           wm_thicket))

\* A reset that copies the staging record into the template.
ResetPlant_CopyReversed ==
  /\ thicket_ui_mode = "EDIT"
  /\ is_thicket_instance(Scene, active)
  /\ Finish([Scene EXCEPT !.col[instances[active]].thicket =
                copy_to(wm_thicket, collections[instances[active]].thicket)],
            next_mode(thicket_ui_mode, "CANCEL"), wm_thicket)

\* THICKET_OT_reset_plant.execute
ResetPlant ==
  /\ thicket_ui_mode = "EDIT"
  /\ IF ~is_thicket_instance(Scene, active)
     THEN Finish(Scene, thicket_ui_mode, wm_thicket)
     ELSE Finish(Scene, next_mode(thicket_ui_mode, "CANCEL"),
                 copy_to(collections[instances[active]].thicket, wm_thicket))

\* An operator end that leaves the selection as the regeneration left it.
RestoreSelection_Skipped(S, plants, act) == S

\* The end of the execute methods of Update and Make Unique: "for p in plants:
\* p.select_set(True)", then "Restore the active object".
RestoreSelection(S, plants, act) ==
  [S EXCEPT !.selected = @ \cup plants, !.active = act]

\* draw: the Update button's "c.enabled = tp != template.thicket"
UpdateEnabled == ~PropEq(wm_thicket, collections[instances[active]].thicket)

\* The loop of THICKET_OT_update_plant.execute over the selected objects.
RECURSIVE UpdateLoop(_, _, _, _)
UpdateLoop(S, plants, templates, tp) ==
  IF plants = <<>> \/ S.raised THEN S
  ELSE
    LET p == Head(plants)
    IN IF ~is_thicket_instance(S, p)
       THEN UpdateLoop(S, Tail(plants), templates, tp)
       ELSE IF S.inst[p] \notin templates
       THEN Bind(update_plant(S, p, tp), LAMBDA S1 :
              IF S1.raised THEN S1
              ELSE UpdateLoop(S1, Tail(plants),
                              templates \cup {S1.inst[p]}, tp))
       ELSE UpdateLoop(S, Tail(plants), templates, tp)

\* THICKET_OT_update_plant.execute
UpdatePlant ==
  /\ thicket_ui_mode = "EDIT"
  /\ IF ~is_thicket_instance(Scene, active)
     THEN Finish(Scene, thicket_ui_mode, wm_thicket)
     ELSE
       /\ UpdateEnabled
       /\ CanImport(Scene)
       /\ \E S1 \in {UpdateLoop(Scene, SetToSeq(selected), {}, wm_thicket)} :
            IF S1.raised
            THEN Finish(S1, thicket_ui_mode, wm_thicket)
            ELSE Finish(RestoreSelection(S1, selected, active),
                        next_mode(thicket_ui_mode, "CONFIRM"), wm_thicket)

\* The loop of THICKET_OT_make_unique.execute over the selected objects.
RECURSIVE MakeUniqueLoop(_, _)
MakeUniqueLoop(S, plants) ==
  IF plants = <<>> THEN S
  ELSE IF ~is_thicket_instance(S, Head(plants))
  THEN MakeUniqueLoop(S, Tail(plants))
  ELSE Bind(make_unique(S, Head(plants)), LAMBDA S1 :
         MakeUniqueLoop(S1, Tail(plants)))

\* THICKET_OT_make_unique.execute
MakeUnique ==
  /\ thicket_ui_mode = "VIEW"
  /\ plant_count(Scene) >= 1
  /\ Siblings(Scene) > 1
  /\ Cardinality(DOMAIN collections) + Cardinality(selected) <= Cardinality(ColIds)
  /\ IF ~is_thicket_instance(Scene, active)
     THEN Finish(Scene, thicket_ui_mode, wm_thicket)
     ELSE Finish(RestoreSelection(MakeUniqueLoop(Scene, SetToSeq(selected)),
                                  selected, active),
                 thicket_ui_mode, wm_thicket)

\* A Delete loop that takes every selected collection instance for a plant.
RECURSIVE DeleteLoop_NoSkip(_, _)
DeleteLoop_NoSkip(S, plants) ==
  IF plants = <<>> THEN S
  ELSE IF Head(plants) \notin DOMAIN S.inst
  THEN DeleteLoop_NoSkip(S, Tail(plants))
  ELSE Bind(delete_plant(S, Head(plants)), LAMBDA S1 :
         DeleteLoop_NoSkip(S1, Tail(plants)))

\* The loop of THICKET_OT_delete_plant.execute over the selected objects.
RECURSIVE DeleteLoop(_, _)
DeleteLoop(S, plants) ==
  IF plants = <<>> THEN S
  ELSE IF ~is_thicket_instance(S, Head(plants))
  THEN DeleteLoop(S, Tail(plants))
  ELSE Bind(delete_plant(S, Head(plants)), LAMBDA S1 :
         DeleteLoop(S1, Tail(plants)))

\* THICKET_OT_delete_plant.execute
DeletePlant ==
  /\ thicket_ui_mode = "VIEW"
  /\ plant_count(Scene) >= 1
  /\ Finish(DeleteLoop(Scene, SetToSeq(selected)), thicket_ui_mode, wm_thicket)

Next ==
  \/ SetProp
  \/ SelectObjects
  \/ DuplicateInstance
  \/ ChangeMode
  \/ SelectPlant
  \/ EditPlant
  \/ LoadPlant
  \/ ResetPlant
  \/ UpdatePlant
  \/ MakeUnique
  \/ DeletePlant

Spec == Init /\ [][Next]_vars

\* The document without any data block.
EmptyScene ==
  [inst |-> [i \in {} |-> 0], col |-> [c \in {} |-> 0], obj |-> [o \in {} |-> 0],
   meshes |-> [m \in {} |-> {}], materials |-> {}, images |-> {},
   selected |-> {}, active |-> NoObj, raised |-> FALSE, calls |-> 0]

\* A session that starts on a saved document: two plants were loaded one
\* after the other, a young Acer with a proxy render and an adult Acer with
\* a full render; the second is still selected.
SavedFirst ==
  SetAttr(SetAttr(select_plant(EmptyProps, DB[FirstPlant].filepath, TRUE),
                  "model", "01young"), "render_lod", "PROXY")

SavedSceneFirst == import_lbw(EmptyScene, SavedFirst, NoObj).scene

SavedSecond ==
  Bind(SavedSceneFirst, LAMBDA S1 :
    SetAttr(SetAttr(copy_to(S1.col[1].thicket, SavedFirst),
                    "model", "01adult"), "render_lod", "FULL"))

SavedScene ==
  Bind(SavedSceneFirst, LAMBDA S1 : import_lbw(S1, SavedSecond, NoObj).scene)

\* Spec reaches this state with Add, two edits, Load, Add, two edits, Load.
SavedDocument ==
  /\ thicket_ui_mode = "VIEW"
  /\ thicket_ui_obj = SavedScene.active
  /\ wm_thicket = copy_to(SavedScene.col[2].thicket, SavedSecond)
  /\ instances = SavedScene.inst
  /\ collections = SavedScene.col
  /\ objects = SavedScene.obj
  /\ meshes = SavedScene.meshes
  /\ materials = SavedScene.materials
  /\ images = SavedScene.images
  /\ selected = SavedScene.selected
  /\ active = SavedScene.active
  /\ seeded = NoObj

InitSaved == SavedDocument /\ steps = 0 /\ DbReady /\ BuildIdle /\ ToolIdle

SpecSaved == InitSaved /\ [][Next]_vars

\* A session on a document that also instances a collection of the user's
\* own: two instances share the template of a loaded Acer, a third object
\* instances a collection that holds a cube and carries no Thicket
\* properties. All three are selected, the foreign instance is active.
ForeignInst == MaxInst + 3
ForeignCol == MaxInst + 3
ForeignObj == 2 * MaxInst + 5

LinkedScene ==
  Bind(import_lbw(EmptyScene,
                  select_plant(EmptyProps, DB[FirstPlant].filepath, TRUE),
                  NoObj).scene, LAMBDA S1 :
    [S1 EXCEPT
       !.inst = [i \in {1, 2, ForeignInst} |->
                   IF i = ForeignInst THEN ForeignCol ELSE S1.inst[1]],
       !.col = [c \in (DOMAIN S1.col) \cup {ForeignCol} |->
                  IF c = ForeignCol
                  THEN [thicket |-> EmptyProps, objects |-> <<ForeignObj>>,
                        request |-> EmptyProps]
                  ELSE S1.col[c]],
       !.obj = [o \in (DOMAIN S1.obj) \cup {ForeignObj} |->
                  IF o = ForeignObj
                  THEN [gen |-> [kind |-> "cube"], name |-> <<"Cube", "">>,
                        parent |-> NoObj, hide_render |-> FALSE,
                        hide_viewport |-> FALSE, hide_select |-> FALSE,
                        show_name |-> FALSE]
                  ELSE S1.obj[o]],
       !.meshes = [m \in (DOMAIN S1.meshes) \cup {ForeignObj} |->
                     IF m = ForeignObj THEN {} ELSE S1.meshes[m]],
       !.selected = {1, 2, ForeignInst},
       !.active = ForeignInst])

LinkedDocument ==
  /\ thicket_ui_mode = "VIEW"
  /\ thicket_ui_obj = NoObj
  /\ wm_thicket = select_plant(EmptyProps, DB[FirstPlant].filepath, TRUE)
  /\ instances = LinkedScene.inst
  /\ collections = LinkedScene.col
  /\ objects = LinkedScene.obj
  /\ meshes = LinkedScene.meshes
  /\ materials = LinkedScene.materials
  /\ images = LinkedScene.images
  /\ selected = LinkedScene.selected
  /\ active = LinkedScene.active
  /\ seeded = NoObj

\* Add and Load made the plant: two of the session's actions are taken.
InitLinked ==
  LinkedDocument /\ steps = 2 /\ DbReady /\ BuildIdle /\ ToolIdle

SpecLinked == InitLinked /\ [][Next]_vars

\* ------------------------------------------------------- ThicketDB.build
\* One build, step by step: the parent spawns workers, waits for the oldest
\* and merges what it printed, while the workers exit in any order.
Range(q) == {q[i] : i \in 1..Len(q)}

DefaultJobs == 4
num_jobs == IF cpu_count = 0 THEN DefaultJobs ELSE cpu_count

\* Workers spawned and not yet joined.
Live == (Range(jobs) \cup {job}) \ {0}

\* The condition of the inner while loop.
CanSpawn_OneMore == Len(jobs) <= num_jobs /\ Len(plant_files) > 0

CanSpawn == Len(jobs) < num_jobs /\ Len(plant_files) > 0

\* jobs.popleft(): the place in the deque of the worker to wait for.
NextJob_FirstExited(q, done) ==
  IF \E i \in 1..Len(q) : q[i] \in done
  THEN CHOOSE i \in 1..Len(q) : q[i] \in done /\ \A j \in 1..(i - 1) : q[j] \notin done
  ELSE 1

NextJob(q, done) == 1

Remove(q, i) == SubSeq(q, 1, i - 1) \o SubSeq(q, i + 1, Len(q))

BuildFrame ==
  UNCHANGED <<vars, tvars, thicket_status, prefs, last_op, opens, lib, outs,
              cpu_count>>

\* A build that does not start from an empty database.
BuildBegin_KeepsPlants ==
  /\ pc = "start"
  /\ pc' = "loop"
  /\ plant_files' = lib
  /\ UNCHANGED <<db, db_file, raised, jobs, job, exited, overtaken, submitted,
                 joined, merged, errors, writes>>
  /\ BuildFrame

\* self.initialize(); plant_files = glob.glob(...)
BuildBegin ==
  /\ pc = "start"
  /\ pc' = "loop"
  /\ db' = initialize
  /\ plant_files' = lib
  /\ UNCHANGED <<db_file, raised, jobs, job, exited, overtaken, submitted,
                 joined, merged, errors, writes>>
  /\ BuildFrame

\* f = plant_files.pop(); jobs.append(Popen(...))
Spawn ==
  /\ pc = "loop"
  /\ job = 0
  /\ CanSpawn
  /\ plant_files' = SubSeq(plant_files, 1, Len(plant_files) - 1)
  /\ jobs' = Append(jobs, Last(plant_files))
  /\ submitted' = Append(submitted, Last(plant_files))
  /\ UNCHANGED <<pc, db, db_file, raised, job, exited, overtaken, joined,
                 merged, errors, writes>>
  /\ BuildFrame

\* A worker prints its result and exits.
WorkerExit ==
  /\ pc = "loop"
  /\ \E w \in Live \ exited :
       /\ exited' = exited \cup {w}
       /\ overtaken' = (overtaken \/
            \E i, j \in 1..Len(submitted) :
               i < j /\ submitted[j] = w /\ submitted[i] \in Live \ exited)
  /\ UNCHANGED <<pc, db, db_file, raised, plant_files, jobs, job, submitted,
                 joined, merged, errors, writes>>
  /\ BuildFrame

\* job = jobs.popleft()
PopLeft ==
  /\ pc = "loop"
  /\ job = 0
  /\ ~CanSpawn
  /\ jobs # <<>>
  /\ job' = jobs[NextJob(jobs, exited)]
  /\ jobs' = Remove(jobs, NextJob(jobs, exited))
  /\ UNCHANGED <<pc, db, db_file, raised, plant_files, exited, overtaken,
                 submitted, joined, merged, errors, writes>>
  /\ BuildFrame

\* outs, errs = job.communicate() and the try statement: the error message
\* names f, the file spawned last.
Communicate ==
  /\ pc = "loop"
  /\ job # 0
  /\ job \in exited
  /\ \E m \in {MergePlant(db, job, outs[job])} :
       /\ db' = m.db
       /\ raised' = m.raised
       /\ pc' = IF m.raised = "none" THEN "loop" ELSE "raised"
       /\ errors' = IF m.logged THEN Append(errors, Last(submitted)) ELSE errors
  /\ merged' = IF outs[job].kind = "record" THEN Append(merged, job) ELSE merged
  /\ joined' = Append(joined, job)
  /\ job' = 0
  /\ UNCHANGED <<db_file, plant_files, jobs, exited, overtaken, submitted,
                 writes>>
  /\ BuildFrame

\* The loop has ended: self.save()
BuildSave ==
  /\ pc = "loop"
  /\ job = 0
  /\ plant_files = <<>>
  /\ jobs = <<>>
  /\ pc' = "done"
  /\ db_file' = save(db)
  /\ writes' = writes + 1
  /\ UNCHANGED <<db, raised, plant_files, jobs, job, exited, overtaken,
                 submitted, joined, merged, errors>>
  /\ BuildFrame

\* A build is called on an open database, with any library, any worker
\* outputs and any number of cores.
InitBuild ==
  /\ UiIdle
  /\ DbReady
  /\ ToolIdle
  /\ pc = "start"
  /\ \E n \in 0..MaxFiles :
       /\ lib = [i \in 1..n |-> i]
       /\ outs \in [1..n -> Outputs]
  /\ cpu_count \in 0..MaxCpu
  /\ plant_files = <<>>
  /\ jobs = <<>>
  /\ job = 0
  /\ exited = {}
  /\ overtaken = FALSE
  /\ submitted = <<>>
  /\ joined = <<>>
  /\ merged = <<>>
  /\ errors = <<>>
  /\ writes = 0

NextBuild ==
  \/ BuildBegin
  \/ Spawn
  \/ WorkerExit
  \/ PopLeft
  \/ Communicate
  \/ BuildSave

SpecBuild == InitBuild /\ [][NextBuild]_allvars

\* ------------------------------------------- a build and the reload after it
\* The plants the database held before the build.
PriorDbs ==
  {[ReadyDb EXCEPT !.plants = Restrict(ReadyDb.plants, P)] :
     P \in SUBSET PlantNames}

\* The plants the files of the library may hold.
BuildNames == PlantNames \cup {"Quercus"}
LibraryOutputs == Outputs \cup [kind : {"record"}, name : BuildNames]

\* db = ThicketDB(db_filename) after the build: the file is read again.
Reload ==
  /\ pc = "done"
  /\ pc' = "reloaded"
  /\ \E o \in {ThicketDB_init(db_file, FALSE)} :
       /\ db' = o.db
       /\ db_file' = o.file
       /\ raised' = o.signal
  /\ UNCHANGED <<plant_files, jobs, job, exited, overtaken, submitted, joined,
                 merged, errors, writes>>
  /\ BuildFrame

\* A build is called on a database that holds any of the earlier plants.
InitReload ==
  /\ UiIdle
  /\ ToolIdle
  /\ db \in PriorDbs
  /\ db_file = save(db)
  /\ thicket_status = Status(TRUE, TRUE, TRUE, db_plant_count(db) > 0)
  /\ prefs = [plants_dir |-> TRUE, sdk_dir |-> TRUE, sdk_loads |-> TRUE]
  /\ last_op = "none"
  /\ raised = "none"
  /\ opens = <<>>
  /\ pc = "start"
  /\ \E n \in 0..MaxFiles :
       /\ lib = [i \in 1..n |-> i]
       /\ outs \in [1..n -> LibraryOutputs]
  /\ cpu_count \in 0..MaxCpu
  /\ plant_files = <<>>
  /\ jobs = <<>>
  /\ job = 0
  /\ exited = {}
  /\ overtaken = FALSE
  /\ submitted = <<>>
  /\ joined = <<>>
  /\ merged = <<>>
  /\ errors = <<>>
  /\ writes = 0

NextReload ==
  \/ BuildBegin
  \/ Spawn
  \/ WorkerExit
  \/ PopLeft
  \/ Communicate
  \/ BuildSave
  \/ Reload

SpecReload == InitReload /\ [][NextReload]_allvars

\* ------------------------------------- Initialization and Rebuild Database
\* What thicket.db can hold when the add-on is enabled.
InitialFiles ==
  {MissingFile,
   Handle("empty_file", 0, EmptyMap, EmptyMap),
   Handle("garbage", 0, EmptyMap, EmptyMap),
   Handle("nokeys", 0, EmptyMap, EmptyMap),
   Handle("noplants", SCHEMA_VERSION, EmptyMap, EmptyMap),
   [ReadyDb EXCEPT !.schema = OldSchema],
   initialize,
   ReadyDb}

\* The libraries a build may find and what the workers print.
Libraries == UNION {{[files |-> [i \in 1..n |-> i], outs |-> o] :
                       o \in [1..n -> Outputs]} : n \in 0..MaxLib}

InitFrame == UNCHANGED <<vars, bvars, tvars>>

\* register() and THICKET_Pref.lbw_path_on_update: thicket_init()
Initialization ==
  /\ \E p \in Prefs : \E r \in {thicket_init(p, db_file)} :
       /\ prefs' = p
       /\ thicket_status' = r.status
       /\ db' = r.db
       /\ db_file' = r.file
       /\ raised' = r.raised
       /\ opens' = r.opens
  /\ last_op' = "init"
  /\ InitFrame

\* THICKET_OT_rebuild_db.execute: the panels offer it when
\* thicket_status.imported.
RebuildDb ==
  /\ thicket_status.imported
  /\ last_op' = "rebuild"
  /\ IF db.kind = "None"
     THEN /\ raised' = "AttributeError"
          /\ opens' = <<>>
          /\ UNCHANGED <<db, db_file, thicket_status, prefs>>
     ELSE \E L \in Libraries : \E b \in {build(L.files, L.outs)} :
            IF b.raised # "none"
            THEN /\ db' = b.db
                 /\ raised' = b.raised
                 /\ opens' = <<>>
                 /\ UNCHANGED <<db_file, thicket_status, prefs>>
            ELSE \E r \in {thicket_init(prefs, save(b.db))} :
                   /\ thicket_status' = r.status
                   /\ db' = r.db
                   /\ db_file' = r.file
                   /\ raised' = r.raised
                   /\ opens' = r.opens
                   /\ UNCHANGED prefs
  /\ InitFrame

\* thicket_db.main, "read": ThicketDB(args.d, create=False); db.read()
CliRead ==
  /\ last_op' = "cli_read"
  /\ \E o \in {OpenCall(db_file, FALSE)} :
       /\ opens' = <<o>>
       /\ raised' = IF o.signal # "none" THEN o.signal
                    ELSE IF o.db.kind = "nodict" THEN "AttributeError"
                    ELSE IF o.db.kind = "noplants" THEN "KeyError"
                    ELSE "none"
       /\ db_file' = o.after
  /\ UNCHANGED <<db, thicket_status, prefs>>
  /\ InitFrame

\* thicket_db.main, "build": ThicketDB(args.d, create=True); db.build(...)
CliBuild ==
  /\ last_op' = "cli_build"
  /\ \E o \in {OpenCall(db_file, TRUE)} :
       /\ opens' = <<o>>
       /\ IF o.signal # "none"
          THEN raised' = o.signal /\ db_file' = o.after
          ELSE \E L \in Libraries : \E b \in {build(L.files, L.outs)} :
                 /\ raised' = b.raised
                 /\ db_file' = IF b.raised = "none" THEN save(b.db) ELSE o.after
  /\ UNCHANGED <<db, thicket_status, prefs>>
  /\ InitFrame

\* The add-on is being enabled: the globals as the module sets them, and
\* whatever thicket.db holds.
InitAddon ==
  /\ UiIdle
  /\ BuildIdle
  /\ ToolIdle
  /\ db = NoneDb
  /\ thicket_status = Status(FALSE, FALSE, FALSE, FALSE)
  /\ prefs = [plants_dir |-> FALSE, sdk_dir |-> FALSE, sdk_loads |-> FALSE]
  /\ db_file \in InitialFiles
  /\ last_op = "none"
  /\ raised = "none"
  /\ opens = <<>>

NextInit ==
  \/ Initialization
  \/ RebuildDb
  \/ CliRead
  \/ CliBuild

SpecInit == InitAddon /\ [][NextInit]_allvars

\* ------------------------- parse_plant, the label table and the two tools
\* A locale is spelled letter by letter, so that replace("_", "-") and
\* locale[:2] are computed on it.
En == <<"e", "n">>
De == <<"d", "e">>
Fr == <<"f", "r">>
EnUS == <<"e", "n", "-", "U", "S">>
EnGB == <<"e", "n", "-", "G", "B">>
En_US == <<"e", "n", "_", "U", "S">>

\* locale.replace("_", "-")
replace(locale) ==
  [i \in 1..Len(locale) |-> IF locale[i] = "_" THEN "-" ELSE locale[i]]

\* locale[:2]
first_two(locale) == SubSeq(locale, 1, Min(2, Len(locale)))

\* The label entries a plant file lists for one symbol, in file order.
Langs == {En, De}
Texts == {"a", "b"}
LabelLists ==
  UNION {[1..n -> [lang : Langs, text : Texts]] : n \in 0..MaxLabels}

\* "if not label['lang'] in p_labels: p_labels[label['lang']] = label['text']"
\* and lbwdb's l[1][0]: the first text listed for each locale.
StoreFirst(list) ==
  [l \in {list[i].lang : i \in 1..Len(list)} |->
     list[CHOOSE i \in 1..Len(list) :
            list[i].lang = l /\ \A j \in 1..(i - 1) : list[j].lang # l].text]

\* "m_labels[label['lang']] = label['text']" for every entry in turn: the
\* text of a locale is overwritten by each later entry.
StoreEach(list) ==
  [l \in {list[i].lang : i \in 1..Len(list)} |->
     list[CHOOSE i \in 1..Len(list) :
            list[i].lang = l /\ \A j \in (i + 1)..Len(list) : list[j].lang # l].text]

\* The plant files handed to the parsers: a plant with one model and one
\* qualifier, and the labels the file lists for each of the three symbols.
ModelName == "01adult"
QualifierName == "summer"
NewFile == MaxFiles + 1

\* The files parsed hold a plant the database does not know.
VendorFiles ==
  [path : {NewFile}, name : {"Quercus"}, labels : LabelLists,
   qualifier_labels : LabelLists, model_labels : LabelLists]

\* The files added hold a plant the database may know, and list labels for
\* the plant alone.
AddFiles ==
  [path : {NewFile}, name : {"Acer", "Quercus"}, labels : LabelLists,
   qualifier_labels : {<<>>}, model_labels : {<<>>}]

\* ThicketDB.parse_plant: the dictionary it returns.
parse_plant(file) ==
  [plant |-> PlantRec(file.path, file.name),
   labels |-> [k \in {file.name, QualifierName, ModelName} |->
                 IF k = ModelName THEN StoreEach(file.model_labels)
                 ELSE IF k = QualifierName THEN StoreEach(file.qualifier_labels)
                 ELSE StoreFirst(file.labels)]]

\* lbwdb.parse_plant
lbwdb_parse_plant(file) ==
  [plant |-> [name |-> file.name, md5 |-> file.path],
   labels |-> [k \in {file.name, QualifierName, ModelName} |->
                 IF k = ModelName THEN StoreFirst(file.model_labels)
                 ELSE IF k = QualifierName THEN StoreFirst(file.qualifier_labels)
                 ELSE StoreFirst(file.labels)]]

\* ThicketDB.add_plant: p_rec["name"] is read from the dictionary parse_plant
\* returned.
add_plant(d, file) ==
  LET p_rec == parse_plant(file)
  IN IF "name" \in DOMAIN p_rec
     THEN [db |-> update_labels(
                    [d EXCEPT !.plants = (p_rec["name"] :> p_rec.plant) @@ d.plants],
                    p_rec.labels),
           raised |-> "none"]
     ELSE [db |-> d, raised |-> "KeyError"]

\* ThicketDB.get_plant(name=...): the record, or "None".
get_plant(d, name) ==
  IF name \in DOMAIN d.plants THEN d.plants[name] ELSE "None"

\* A get_label that looks the full locale up only.
get_label_FullLocaleOnly(labels, self_locale, key, locale) ==
  LET loc == IF locale # <<>> THEN replace(locale) ELSE self_locale
  IN IF key \notin DOMAIN labels THEN key
     ELSE IF loc \in DOMAIN labels[key] THEN labels[key][loc]
     ELSE key

\* ThicketDB.get_label and LaubwerkDB.get_label; labels is _db["labels"],
\* self_locale the locale the object was made with, locale <<>> when the
\* argument is left out.
get_label(labels, self_locale, key, locale) ==
  LET loc == IF locale # <<>> THEN replace(locale) ELSE self_locale
  IN IF key \notin DOMAIN labels THEN key
     ELSE IF loc \in DOMAIN labels[key] THEN labels[key][loc]
     ELSE IF first_two(loc) \in DOMAIN labels[key]
     THEN labels[key][first_two(loc)]
     ELSE key

\* The label tables queried: none, or the texts of "Acer" for some locales.
TableLocales == {EnUS, En, De}
LabelTables ==
  {EmptyMap} \cup
  UNION {{("Acer" :> t) : t \in [L -> Texts]} : L \in SUBSET TableLocales}

QueryLocales == {<<>>, EnUS, En_US, EnGB, En, Fr}
ConfiguredLocales == {EnUS, En_US, Fr}

\* The command line: the subcommand and the flags that were given.
Args(cmds) == [cmd : cmds, d : BOOLEAN, f : BOOLEAN, p : BOOLEAN, s : BOOLEAN]

\* What a run of a tool does: whether it prints its usage text, the command
\* it performs, the exception that ends it, and the status the process exits
\* with (the value main() returns is dropped by the call at the end of the
\* file; an exception that is not caught ends the interpreter with 1).
Ran(usage, performed, exc) ==
  [usage |-> usage, performed |-> performed, raised |-> exc,
   exit |-> IF exc = "none" THEN 0 ELSE 1]

\* thicket_db.main; importable: "import laubwerk" succeeds without -s.
thicket_db_main(a, importable) ==
  LET lbw_bound == importable \/ a.s
  IN IF a.cmd = "read" /\ a.d THEN Ran(FALSE, "read", "none")
     ELSE IF a.cmd = "build" /\ a.d /\ a.p
     THEN (IF lbw_bound THEN Ran(FALSE, "build", "none")
           ELSE Ran(FALSE, "none", "NameError"))
     ELSE IF a.cmd = "parse_plant" /\ a.f
     THEN (IF lbw_bound THEN Ran(FALSE, "parse_plant", "none")
           ELSE Ran(FALSE, "none", "NameError"))
     ELSE Ran(TRUE, "none", "none")

\* lbwdb.main: -d has the default "thicket.db", so args.d is always set.
lbwdb_main(a) ==
  IF a.cmd = "read" THEN Ran(FALSE, "read", "none")
  ELSE IF a.cmd = "write" /\ a.p /\ a.s THEN Ran(FALSE, "write", "none")
  ELSE IF a.cmd = "parse" /\ a.f /\ a.s THEN Ran(FALSE, "parse", "none")
  ELSE Ran(TRUE, "none", "none")

ToolFrame == UNCHANGED <<vars, bvars, thicket_status, prefs, opens>>

\* A session makes one call of a function that changes nothing, with no
\* result at hand, and ends with it; add_plant and save follow each other
\* freely before.
Fresh == tool_out.op = "none"
Open == tool_out.op \in {"none", "add_plant"}

\* db.add_plant(filepath)
AddPlant ==
  /\ Open
  /\ \E file \in AddFiles : \E r \in {add_plant(db, file)} :
       /\ tool_in' = [op |-> "add_plant", file |-> file]
       /\ tool_out' = [op |-> "add_plant", raised |-> r.raised]
       /\ db' = r.db
       /\ raised' = r.raised
  /\ last_op' = "add_plant"
  /\ UNCHANGED db_file
  /\ ToolFrame

\* db.save()
SaveDb ==
  /\ Open
  /\ db_file' = save(db)
  /\ last_op' = "save"
  /\ raised' = "none"
  /\ tool_in' = [op |-> "none"]
  /\ tool_out' = [op |-> "none"]
  /\ UNCHANGED db
  /\ ToolFrame

\* ThicketDB.parse_plant(filepath) and lbwdb's parse_plant(filename)
ParsePlant ==
  /\ Fresh
  /\ \E tool \in {"thicket_db", "lbwdb"} : \E file \in VendorFiles :
       /\ tool_in' = [op |-> "parse_plant", tool |-> tool, file |-> file]
       /\ tool_out' = [op |-> "parse_plant",
                       p_rec |-> IF tool = "thicket_db" THEN parse_plant(file)
                                 ELSE lbwdb_parse_plant(file)]
  /\ last_op' = "parse_plant"
  /\ raised' = "none"
  /\ UNCHANGED <<db, db_file>>
  /\ ToolFrame

\* db.get_label(key, locale) on a database made with ThicketDB(.., locale)
GetLabel ==
  /\ Fresh
  /\ \E T \in LabelTables : \E c \in ConfiguredLocales :
     \E key \in {"Acer", "Quercus"} : \E locale \in QueryLocales :
       /\ tool_in' = [op |-> "get_label", labels |-> T, configured |-> c,
                      key |-> key, locale |-> locale]
       /\ tool_out' = [op |-> "get_label",
                       label |-> get_label(T, replace(c), key, locale)]
  /\ last_op' = "get_label"
  /\ raised' = "none"
  /\ UNCHANGED <<db, db_file>>
  /\ ToolFrame

\* python thicket_db.py ... and python lbwdb.py ...
ToolMain ==
  /\ Fresh
  /\ \/ \E a \in Args({"read", "build", "parse_plant"}) : \E i \in BOOLEAN :
          /\ tool_in' = [op |-> "main", tool |-> "thicket_db", args |-> a,
                         importable |-> i]
          /\ tool_out' = [op |-> "main", ran |-> thicket_db_main(a, i)]
     \/ \E a \in Args({"read", "write", "parse"}) :
          /\ tool_in' = [op |-> "main", tool |-> "lbwdb", args |-> a,
                         importable |-> TRUE]
          /\ tool_out' = [op |-> "main", ran |-> lbwdb_main(a)]
  /\ last_op' = "main"
  /\ raised' = tool_out'.ran.raised
  /\ UNCHANGED <<db, db_file>>
  /\ ToolFrame

\* A database is open in memory, new or as the file holds it.
InitTool ==
  /\ UiIdle
  /\ BuildIdle
  /\ ToolIdle
  /\ db \in {initialize, ReadyDb}
  /\ db_file = save(ReadyDb)
  /\ thicket_status = Status(TRUE, TRUE, TRUE, TRUE)
  /\ prefs = [plants_dir |-> TRUE, sdk_dir |-> TRUE, sdk_loads |-> TRUE]
  /\ last_op = "none"
  /\ raised = "none"
  /\ opens = <<>>

NextTool ==
  \/ AddPlant
  \/ SaveDb
  \/ ParsePlant
  \/ GetLabel
  \/ ToolMain

SpecTool == InitTool /\ [][NextTool]_allvars

\* ------------------------------------------------------------------ claims
\* The geometry of the objects of a template, in template order.
GensOf(S, t) ==
  [k \in 1..Len(S.col[t].objects) |-> S.obj[S.col[t].objects[k]].gen]

\* What the engine generates for a request when nothing is reused.
FullRegeneration(req) ==
  LET E == thicket_lbw_import_lbw(EmptyScene, req, NoObj, NoObj)
  IN GensOf(E.scene, E.scene.inst[E.plant_obj])

\* C1: the objects of every template carry the geometry that full
\* regeneration with the template's resolved request produces, whatever
\* Update reused.
C1_ReuseAsFullRegeneration ==
  \A t \in DOMAIN collections :
     GensOf(Scene, t) = FullRegeneration(collections[t].request)

\* The request fields a property record stands for.
PersistedRequest(tp) ==
  [filepath |-> DB[Get(tp, "name")].filepath,
   model |-> Get(tp, "model"),
   viewport_lod |-> Get(tp, "viewport_lod"),
   render_lod |-> Get(tp, "render_lod"),
   mesh_args |->
     [k \in {"qualifier", "leaf_density", "max_subdiv_level", "leaf_amount"}
              \cup (IF Get(tp, "use_lod_max_level") THEN {"max_branch_level"} ELSE {})
              \cup (IF Get(tp, "use_lod_min_thick") THEN {"min_thickness"} ELSE {}) |->
        IF k = "qualifier" THEN Get(tp, "qualifier")
        ELSE IF k = "leaf_density" THEN Get(tp, "leaf_density") * 100
        ELSE IF k = "max_branch_level" THEN Get(tp, "lod_max_level")
        ELSE IF k = "min_thickness" THEN Get(tp, "lod_min_thick")
        ELSE IF k = "max_subdiv_level" THEN Get(tp, "lod_subdiv")
        ELSE Get(tp, "leaf_amount") * 100]]

\* C6: the persisted properties of every generated template equal the
\* resolved request the engine was called with to generate it.
C6_TemplateGroundTruth ==
  \A t \in DOMAIN collections :
     Get(collections[t].thicket, "magic") = THICKET_GUID =>
        PersistedRequest(collections[t].thicket) = collections[t].request

ProxyPair(tp) ==
  Get(tp, "render_lod") = "PROXY" => Get(tp, "viewport_lod") = "PROXY"

\* C7: in the staging record and in every template's persisted properties,
\* render_lod = PROXY implies viewport_lod = PROXY.
C7_ProxyInvariant ==
  /\ ProxyPair(wm_thicket)
  /\ \A t \in DOMAIN collections : ProxyPair(collections[t].thicket)

\* C2: every instance references an existing template, and a Delete that
\* removes only instances of one template which keeps another user leaves
\* the templates, their objects and the other instances as they were.
C2_ReferenceCounted ==
  [][/\ \A i \in DOMAIN instances' : instances'[i] \in DOMAIN collections'
     /\ LET deleted == (DOMAIN instances) \ (DOMAIN instances')
        IN (/\ deleted # {}
            /\ \E t \in DOMAIN collections :
                 /\ \A d \in deleted : instances[d] = t
                 /\ \E i \in DOMAIN instances' : instances[i] = t)
           => /\ collections' = collections
              /\ objects' = objects
              /\ meshes' = meshes
              /\ instances' = Restrict(instances, DOMAIN instances')]_vars

\* Load, duplicate, select the first instance, Delete: of the two instances
\* that shared template 1 the second is left.
C2_Witness ==
  /\ steps = 5
  /\ DOMAIN instances = {2}
  /\ instances[2] = 1
  /\ 1 \in DOMAIN collections

\* C3: no template without an instance exists, and no mesh, material or
\* image data block is left with zero users.
C3_NoLeak ==
  /\ \A t \in DOMAIN collections : users_dupli_group(Scene, t) # {}
  /\ \A m \in DOMAIN meshes : mesh_users(Scene, m) # 0
  /\ \A n \in materials : mat_users(Scene, n) # 0
  /\ \A i \in images : img_users(Scene, i) # 0

\* The templates of the selected managed instances: the ones Update rebuilds.
UpdatedTemplates == {instances[p] : p \in Plants(Scene)}

\* A sibling's template: none of its instances is selected, and it holds
\* objects of a template that is being updated, as after Make Unique.
SiblingTemplate(t) ==
  /\ t \notin UpdatedTemplates
  /\ users_dupli_group(Scene, t) # {}
  /\ \E u \in UpdatedTemplates :
       SeqRange(collections[t].objects) \cap SeqRange(collections[u].objects) # {}

\* The user changed a geometry field of the staging record after Edit.
StagedChange ==
  \E k \in {"model", "qualifier", "leaf_density", "viewport_lod", "render_lod"} :
     Get(wm_thicket, k) # Get(collections[instances[active]].thicket, k)

\* C4: an Update of the instance made unique, with changed properties, leaves
\* the sibling's template as it was: its objects, each object's geometry,
\* name, parent and flags, and its persisted properties.
C4_MakeUniqueIndependence ==
  [][(UpdatePlant /\ StagedChange) =>
       \A t \in DOMAIN collections :
          SiblingTemplate(t) =>
             /\ t \in DOMAIN collections'
             /\ collections'[t] = collections[t]
             /\ \A o \in SeqRange(collections[t].objects) :
                  /\ o \in DOMAIN objects'
                  /\ objects'[o] = objects[o]]_vars

\* The staging record asks for a batch Update that changes the density only.
DensityOnlyBatch ==
  /\ Get(wm_thicket, "batch_mode")
  /\ Get(wm_thicket, "batch_name") = ""
  /\ Get(wm_thicket, "batch_model") = "UNCHANGED"
  /\ Get(wm_thicket, "batch_qualifier") = "UNCHANGED"
  /\ Get(wm_thicket, "batch_use_lod")
  /\ \E p \in Plants(Scene) :
       Get(wm_thicket, "leaf_density")
         # Get(collections[instances[p]].thicket, "leaf_density")

\* C5: after a density-only batch Update every updated instance's template
\* has, in its persisted properties and in its geometry, the plant, model
\* and qualifier the same instance had before.
C5_BatchUnchanged ==
  [][(UpdatePlant /\ DensityOnlyBatch /\ Batch(Scene)) =>
       \A p \in Plants(Scene) :
          LET old == collections[instances[p]].thicket
              new == collections'[instances'[p]]
          IN /\ Get(new.thicket, "name") = Get(old, "name")
             /\ Get(new.thicket, "model") = Get(old, "model")
             /\ Get(new.thicket, "qualifier") = Get(old, "qualifier")
             /\ \A o \in SeqRange(new.objects) :
                  /\ objects'[o].gen.plant = Get(old, "name")
                  /\ objects'[o].gen.model = Get(old, "model")
                  /\ objects'[o].gen.qualifier = Get(old, "qualifier")]_vars

\* The transition table of the sidebar modes.
ModeTable(m, op) ==
  CASE m = "VIEW" /\ op = "ADD" -> "ADD"
    [] m = "VIEW" /\ op = "EDIT" -> "EDIT"
    [] m = "ADD" /\ op = "CHANGE" -> "SELECT_ADD"
    [] m = "ADD" /\ op \in {"CANCEL", "CONFIRM", "DELETE"} -> "VIEW"
    [] m = "EDIT" /\ op = "ADD" -> "SELECT_ADD"
    [] m = "EDIT" /\ op = "CHANGE" -> "SELECT"
    [] m = "EDIT" /\ op \in {"CANCEL", "CONFIRM", "DELETE"} -> "VIEW"
    [] m = "SELECT" /\ op \in {"CANCEL", "CONFIRM"} -> "EDIT"
    [] m = "SELECT_ADD" /\ op \in {"CANCEL", "CONFIRM"} -> "ADD"
    [] OTHER -> m

\* C8: next_mode implements the table for every event, an unknown one
\* included, and the mode is always one of the five.
C8_ModeTable ==
  /\ thicket_ui_mode \in Modes
  /\ \A op \in ops \cup {"UNKNOWN"} :
       next_mode(thicket_ui_mode, op) = ModeTable(thicket_ui_mode, op)

\* The replacement picker of an edit is open.
C8_Witness == thicket_ui_mode = "SELECT"

\* A Cancel or a Confirm taken in the picker.
PickerLeave ==
  /\ thicket_ui_mode \in {"SELECT", "SELECT_ADD"}
  /\ ChangeMode \/ SelectPlant

\* C9: the picker is entered as SELECT from EDIT and as SELECT_ADD from ADD
\* only, and a Cancel or Confirm taken in it sets the mode back to that mode.
C9_PickerReturns ==
  [][/\ (thicket_ui_mode' = "SELECT" /\ thicket_ui_mode # "SELECT")
          => thicket_ui_mode = "EDIT"
     /\ (thicket_ui_mode' = "SELECT_ADD" /\ thicket_ui_mode # "SELECT_ADD")
          => thicket_ui_mode = "ADD"
     /\ (PickerLeave /\ thicket_ui_mode = "SELECT") => thicket_ui_mode' = "EDIT"
     /\ (PickerLeave /\ thicket_ui_mode = "SELECT_ADD")
          => thicket_ui_mode' = "ADD"]_vars

\* The steps of an edit that ends with Cancel.
EditSessionStep ==
  \/ EditPlant
  \/ /\ thicket_ui_mode \in {"EDIT", "SELECT"}
     /\ SetProp \/ ChangeMode \/ SelectPlant \/ ResetPlant

\* C10: Edit Plant, the staging edits, the gallery visits and Cancel leave
\* the templates, their persisted properties, the instances and their
\* references as they were, and Cancel ends in VIEW.
C10_CancelNoOp ==
  [][EditSessionStep =>
       /\ instances' = instances
       /\ collections' = collections
       /\ objects' = objects
       /\ (ResetPlant /\ is_thicket_instance(Scene, active))
            => thicket_ui_mode' = "VIEW"]_vars

\* Load, Edit, a staged density of 50, Cancel: the template still holds
\* the density of 100 and no other template was made.
C10_Witness ==
  /\ steps = 5
  /\ thicket_ui_mode = "VIEW"
  /\ DOMAIN collections = {1}
  /\ selected = {1} /\ active = 1
  /\ Get(wm_thicket, "leaf_density") = 50
  /\ Get(wm_thicket, "batch_model") = "UNCHANGED"
  /\ Get(collections[1].thicket, "leaf_density") = 100

\* -------------------------------------------------- claims on the database
\* The build has ended: it returned, or an exception left it.
BuildEnded == pc \in {"done", "raised"}

Pos(q, x) == CHOOSE i \in 1..Len(q) : q[i] = x

\* The workers, among a set of them, that printed the record of plant n.
Yielding(W, n) == {w \in W : outs[w].kind = "record" /\ outs[w].name = n}

LastSubmitted(W) ==
  CHOOSE w \in W : \A v \in W : Pos(submitted, v) <= Pos(submitted, w)

\* C11: records are merged in the order their workers were submitted, however
\* the workers finish, and of two files with one plant name the record of the
\* one submitted later remains.
C11_MergeOrder ==
  /\ \A i, j \in 1..Len(merged) :
        i < j => Pos(submitted, merged[i]) < Pos(submitted, merged[j])
  /\ pc \in {"loop", "done"} =>
       \A n \in PlantNames :
          IF Yielding(Range(merged), n) = {} THEN n \notin DOMAIN db.plants
          ELSE /\ n \in DOMAIN db.plants
               /\ db.plants[n] = PlantRec(LastSubmitted(Yielding(Range(merged), n)), n)
  /\ pc = "done" => Range(merged) = {w \in Range(lib) : outs[w].kind = "record"}

C11_Witness ==
  /\ pc = "done"
  /\ overtaken
  /\ \E n \in PlantNames : Cardinality(Yielding(Range(merged), n)) >= 2

\* C12: the workers spawned and not yet joined never outnumber the processor
\* cores, or 4 when their number is unknown.
C12_ConcurrencyBound ==
  Cardinality(Live) <= (IF cpu_count = 0 THEN 4 ELSE cpu_count)

C12_Witness ==
  /\ pc = "loop"
  /\ cpu_count = 2
  /\ Cardinality(Live) = 2
  /\ job # 0
  /\ plant_files # <<>>

C12_WitnessDefault ==
  /\ pc = "loop"
  /\ cpu_count = 0
  /\ Cardinality(Live) = 4

\* C13: whatever workers print malformed output, the build logs one error for
\* each of them, merges the record of every other worker, and saves the
\* database at its end.
C13_FaultIsolation ==
  /\ raised = "none"
  /\ BuildEnded =>
       /\ pc = "done"
       /\ Len(errors) = Cardinality({w \in Range(lib) : Malformed(outs[w])})
       /\ Range(merged) = {w \in Range(lib) : ~Malformed(outs[w])}
       /\ DOMAIN db.plants = {outs[w].name : w \in {v \in Range(lib) : ~Malformed(outs[v])}}
       /\ writes = 1
       /\ db_file = save(db)

\* C14: the database a build leaves, in memory and on disk, is a function of
\* the plant files and the worker outputs alone: the number of workers run at
\* once and the order in which they finish do not enter it.
C14_BuildDeterminism ==
  BuildEnded =>
    /\ db = build(lib, outs).db
    /\ raised = build(lib, outs).raised
    /\ db_file = IF build(lib, outs).raised = "none" THEN save(build(lib, outs).db)
                 ELSE save(ReadyDb)

C14_Witness ==
  /\ pc = "done"
  /\ overtaken
  /\ cpu_count = 2
  /\ Len(lib) = MaxFiles
  /\ \E n \in PlantNames : Cardinality(Yielding(Range(lib), n)) >= 2

Once(q, x) == Cardinality({i \in 1..Len(q) : q[i] = x}) = 1

\* C15: a build comes to its end once its workers exit, and at its end every
\* plant file has been handed to exactly one worker, every worker has been
\* joined exactly once, no file is left unscheduled and no worker un-joined.
C15_BuildCompleteness ==
  /\ pc \in {"start", "loop"} => ENABLED NextBuild
  /\ \A f \in Range(lib) :
        /\ Cardinality({i \in 1..Len(submitted) : submitted[i] = f}) <= 1
        /\ Cardinality({i \in 1..Len(joined) : joined[i] = f}) <= 1
  /\ BuildEnded =>
       /\ \A f \in Range(lib) : Once(submitted, f) /\ Once(joined, f)
       /\ plant_files = <<>>
       /\ Live = {}

\* C16: a build writes thicket.db once, after the last worker was joined and
\* merged; until then the file stays as it was.
C16_SingleWrite ==
  /\ writes <= 1
  /\ writes = 1 => plant_files = <<>> /\ Live = {} /\ db_file = save(db)
  /\ writes = 0 => db_file = save(ReadyDb)
  /\ BuildEnded => writes = 1

\* The files Initialization may not read a database from.
Corrupted(file) == file.kind \in {"empty_file", "garbage", "nokeys", "noplants"}

\* C17: Initialization returns normally whatever the paths and thicket.db are,
\* and a corrupted thicket.db leaves ready false.
C17_InitNeverRaises ==
  last_op = "init" =>
    /\ raised = "none"
    /\ (opens # <<>> /\ Corrupted(opens[1].before)) => ~thicket_status.ready

\* A file that calls for a rebuild: missing, without plants, or of an older
\* schema.
NeedsRebuild(file) ==
  \/ file.kind = "missing"
  \/ file.kind = "db" /\ (file.schema < SCHEMA_VERSION \/ DOMAIN file.plants = {})

\* C18: after any Initialization and Rebuild Database, ready is true only if
\* the open database has the current schema and a plant; a missing, empty or
\* older thicket.db leaves ready false and an empty database of the current
\* schema open.
C18_RebuildRequired ==
  /\ thicket_status.ready =>
       /\ db.kind = "db"
       /\ db.schema = SCHEMA_VERSION
       /\ DOMAIN db.plants # {}
  /\ (last_op \in {"init", "rebuild"} /\ opens # <<>> /\ NeedsRebuild(opens[1].before)) =>
       /\ ~thicket_status.ready
       /\ db.kind = "db"
       /\ db.schema = SCHEMA_VERSION
       /\ DOMAIN db.plants = {}

\* C19: opening a database of an older schema raises ThicketDBOldSchemaError
\* with create and without it, gives no database object and leaves the file
\* as it was.
C19_SchemaStaleness ==
  \A i \in 1..Len(opens) :
     (opens[i].before.kind = "db" /\ opens[i].before.schema < SCHEMA_VERSION) =>
        /\ opens[i].signal = "ThicketDBOldSchemaError"
        /\ opens[i].db.kind = "None"
        /\ opens[i].after = opens[i].before

C19_Witness ==
  /\ last_op = "cli_build"
  /\ opens[1].create
  /\ opens[1].before.kind = "db"
  /\ opens[1].before.schema < SCHEMA_VERSION
  /\ DOMAIN opens[1].before.plants # {}

\* C20: opening a missing file with create makes an empty database of the
\* current schema and writes it to the file; without create it raises
\* FileNotFoundError and leaves no file.
C20_OpenMissing ==
  \A i \in 1..Len(opens) :
     opens[i].before.kind = "missing" =>
        IF opens[i].create
        THEN /\ opens[i].signal = "none"
             /\ opens[i].db.kind = "db"
             /\ opens[i].db.schema = SCHEMA_VERSION
             /\ DOMAIN opens[i].db.plants = {}
             /\ DOMAIN opens[i].db.labels = {}
             /\ opens[i].after = opens[i].db
        ELSE /\ opens[i].signal = "FileNotFoundError"
             /\ opens[i].db.kind = "None"
             /\ opens[i].after.kind = "missing"

C20_Witness ==
  /\ last_op = "init"
  /\ Len(opens) = 2
  /\ opens[1].before.kind = "missing" /\ ~opens[1].create
  /\ opens[2].before.kind = "missing" /\ opens[2].create
  /\ db_file = initialize

\* ------------------------------------ claims on Update, the gallery, the tools
\* The render object of a template: the last object linked into it.
RenderObject(S, t) == Last(S.col[t].objects)

\* The staging record asks, for the template, the same plant, model and
\* qualifier, the same LOD-affecting fields and the same render tier.
SameRenderRequest(tp, old) ==
  /\ \A k \in {"name", "model", "qualifier", "render_lod"} \cup LodKeys :
       Get(tp, k) = Get(old, k)

\* C21: an Update whose staging record has the plant, model and qualifier,
\* the LOD-affecting fields and the render tier of the template reuses the
\* template's render object, with the geometry it had; an Update that changes
\* leaf_density gives the template a render object it did not have.
C21_RenderReuse ==
  [][(UpdatePlant /\ is_thicket_instance(Scene, active) /\ ~Batch(Scene)) =>
       \A p \in Plants(Scene) :
          LET old == collections[instances[p]]
              new == RenderObject(Scene', instances'[p])
          IN /\ SameRenderRequest(wm_thicket, old.thicket) =>
                  /\ new = RenderObject(Scene, instances[p])
                  /\ objects'[new].gen = objects[new].gen
             /\ Get(wm_thicket, "leaf_density") # Get(old.thicket, "leaf_density") =>
                  new \notin SeqRange(old.objects)]_vars


\* The instances whose template reference a step changes.
Repointed == {i \in DOMAIN instances : instances'[i] # instances[i]}

Unmanaged == {o \in selected : ~is_thicket_instance(Scene, o)}

\* C23: Update, Make Unique and Reset invoked while the active object is no
\* managed instance change no template, object, instance, reference or
\* selection, no field of the staging record and not the mode; and whatever
\* the active object is, Update, Make Unique and Delete leave every selected
\* object that is no managed instance in the document and selected, with the
\* collection it instances, that collection and its objects as they were.
C23_MisuseNoOp ==
  [][/\ ((UpdatePlant \/ MakeUnique \/ ResetPlant)
           /\ ~is_thicket_instance(Scene, active))
          => UNCHANGED <<thicket_ui_mode, wm_thicket, instances, collections,
                         objects, meshes, materials, images, selected, active>>
     /\ (UpdatePlant \/ MakeUnique \/ DeletePlant)
          => \A o \in Unmanaged :
               /\ o \in selected'
               /\ o \in DOMAIN instances =>
                    /\ o \in DOMAIN instances'
                    /\ instances'[o] = instances[o]
                    /\ instances[o] \in DOMAIN collections'
                    /\ collections'[instances[o]] = collections[instances[o]]
                    /\ \A x \in SeqRange(collections[instances[o]].objects) :
                         x \in DOMAIN objects' /\ objects'[x] = objects[x]]_vars

\* Delete with the two plants and the foreign instance selected: the plants
\* and their template are gone, the foreign instance, its collection and its
\* cube are left, still selected.
C23_Witness ==
  /\ steps = 3
  /\ DOMAIN instances = {ForeignInst}
  /\ DOMAIN collections = {ForeignCol}
  /\ DOMAIN objects = {ForeignObj}
  /\ selected = {ForeignInst}

\* The fields select_plant is not asked to choose: all but the plant, its
\* model and qualifier, and the plant name of a batch edit.
OtherFields == Fields \ {"name", "model", "qualifier", "batch_name"}

\* C24: a plant selected while adding leaves the staging record with that
\* plant, its default model, that model's default qualifier and the default
\* of every other field, whatever was staged before; a plant selected while
\* editing keeps the staged model if the plant has it (else the plant's
\* default model), the staged qualifier if that model has it (else the
\* model's default qualifier), and every other field as it was.
C24_GallerySeeding ==
  [][SelectPlant =>
       LET n == Get(wm_thicket', "name")
           m == Get(wm_thicket', "model")
           q == Get(wm_thicket', "qualifier")
       IN /\ n \in PlantNames
          /\ thicket_ui_mode = "SELECT_ADD" =>
               /\ m = DB[n].default_model
               /\ q = DB[n].default_qualifier[m]
               /\ \A k \in OtherFields \cup {"batch_name"} :
                    Get(wm_thicket', k) = Default[k]
          /\ thicket_ui_mode = "SELECT" =>
               /\ m = (IF Get(wm_thicket, "model") \in SeqRange(DB[n].models)
                       THEN Get(wm_thicket, "model") ELSE DB[n].default_model)
               /\ q = (IF Get(wm_thicket, "qualifier")
                            \in SeqRange(DB[n].qualifiers[m])
                       THEN Get(wm_thicket, "qualifier")
                       ELSE DB[n].default_qualifier[m])
               /\ \A k \in OtherFields :
                    Get(wm_thicket', k) = Get(wm_thicket, k)]_vars

\* C25: add_plant on a parsable file completes normally; afterwards get_plant
\* by the plant's name returns the record parsed from the file and the
\* plant's labels are in the label table, every other plant is as it was,
\* plant_count has grown by one for a new name and not at all otherwise, and
\* the file on disk is as it was.
C25_AddPlant ==
  [][AddPlant =>
       LET file == tool_in'.file
           new == IF file.name \in DOMAIN db.plants THEN 0 ELSE 1
       IN /\ raised' = "none"
          /\ get_plant(db', file.name) = PlantRec(file.path, file.name)
          /\ file.name \in DOMAIN db'.labels
          /\ \A n \in (DOMAIN db.plants) \ {file.name} :
               get_plant(db', n) = get_plant(db, n)
          /\ db_plant_count(db') = db_plant_count(db) + new
          /\ db_file' = db_file]_allvars

\* The stored texts are the first listed: every locale of the list is
\* stored, with the text of the first entry of that locale.
FirstListed(list, stored) ==
  /\ DOMAIN stored = {list[i].lang : i \in 1..Len(list)}
  /\ \A i \in 1..Len(list) :
       (\A j \in 1..(i - 1) : list[j].lang # list[i].lang)
          => stored[list[i].lang] = list[i].text

\* C26: for the plant name, the model name and the qualifier name of a parsed
\* file and every locale, the text parse_plant stores is the first the file
\* lists for that locale.
C26_FirstLabelWins ==
  [][ParsePlant =>
       LET file == tool_in'.file
           labels == tool_out'.p_rec.labels
       IN /\ FirstListed(file.labels, labels[file.name])
          /\ FirstListed(file.model_labels, labels[ModelName])
          /\ FirstListed(file.qualifier_labels, labels[QualifierName])]_allvars

\* C27: get_label returns the text stored for the full locale, else the text
\* stored for the locale's first two letters, else the symbol, also when the
\* symbol has no entry; the locale is the one asked for, the configured one
\* when none is given, with every underscore read as a hyphen.
C27_LabelResolution ==
  last_op = "get_label" =>
    LET asked == IF tool_in.locale = <<>> THEN tool_in.configured
                 ELSE tool_in.locale
        wanted == [k \in 1..Len(asked) |->
                     IF asked[k] = "_" THEN "-" ELSE asked[k]]
        primary == <<wanted[1], wanted[2]>>
        entries == IF tool_in.key \in DOMAIN tool_in.labels
                   THEN tool_in.labels[tool_in.key] ELSE EmptyMap
    IN tool_out.label = (IF wanted \in DOMAIN entries THEN entries[wanted]
                         ELSE IF primary \in DOMAIN entries THEN entries[primary]
                         ELSE tool_in.key)

\* With {en-US: "a", en: "b"} stored for Acer, en-GB was asked and "b"
\* returned.
C27_Witness ==
  /\ last_op = "get_label"
  /\ tool_in.key = "Acer"
  /\ tool_in.labels = ("Acer" :> (EnUS :> "a" @@ En :> "b"))
  /\ tool_in.locale = EnGB
  /\ tool_out.label = "b"

\* The flags the subcommand of a tool requires are not all given.
MissingFlags(tool, a) ==
  IF tool = "thicket_db"
  THEN \/ a.cmd = "read" /\ ~a.d
       \/ a.cmd = "build" /\ ~(a.d /\ a.p /\ a.s)
       \/ a.cmd = "parse_plant" /\ ~(a.f /\ a.s)
  ELSE \/ a.cmd = "read" /\ ~a.d
       \/ a.cmd = "write" /\ ~(a.d /\ a.p /\ a.s)
       \/ a.cmd = "parse" /\ ~(a.f /\ a.s)

\* C28: a tool run without the flags its subcommand requires prints its
\* usage text, performs no read, build or parse, and exits with a status
\* other than zero.
C28_MissingFlags ==
  (last_op = "main" /\ MissingFlags(tool_in.tool, tool_in.args)) =>
     /\ tool_out.ran.usage
     /\ tool_out.ran.performed = "none"
     /\ tool_out.ran.exit # 0

\* The engine's 0..1 value of a percentage, in ten-thousandths: 50 percent
\* is 5000 / 10000.
Fraction(percent) == percent * 100

\* The instances whose template the step generated: the one Load made, or
\* the selected plants of an Update that ran to its end.
Generated ==
  IF LoadPlant THEN DOMAIN instances' \ DOMAIN instances
  ELSE IF /\ UpdatePlant
          /\ is_thicket_instance(Scene, active)
          /\ ~UpdateLoop(Scene, SetToSeq(selected), {}, wm_thicket).raised
  THEN Plants(Scene)
  ELSE {}

\* The template generated for p was requested with the staged percentages
\* over 100 and reports the staged percentages.
RoundTrip(p) ==
  LET new == collections'[instances'[p]]
  IN \A k \in {"leaf_density", "leaf_amount"} :
        /\ new.request.mesh_args[k] = Fraction(Get(wm_thicket, k))
        /\ Get(new.thicket, k) = Get(wm_thicket, k)

\* C29: for the staged leaf_density and leaf_amount, the request handed to
\* the engine carries the staged value divided by 100, and the template
\* generated from the request reports the staged percentage in its persisted
\* properties.
C29_PercentageRoundTrip ==
  [][\A p \in Generated : RoundTrip(p)]_vars

\* Every worker printed the record of its file, and no two files hold the
\* same plant.
LibraryOfPlants ==
  /\ \A f \in Range(lib) : outs[f].kind = "record"
  /\ \A f, g \in Range(lib) : outs[f].name = outs[g].name => f = g

\* C30: after a build over N files of N plants, on a database that held any
\* earlier plants, the database read again from the file holds exactly the N
\* plants of the build, each under its name with the path and the md5 of
\* its file, and none of the earlier plants.
C30_DatabaseRoundTrip ==
  (pc = "reloaded" /\ LibraryOfPlants) =>
     /\ raised = "none"
     /\ db.kind = "db"
     /\ db_plant_count(db) = Len(lib)
     /\ DOMAIN db.plants = {outs[f].name : f \in Range(lib)}
     /\ \A f \in Range(lib) :
          db.plants[outs[f].name] =
            [name |-> outs[f].name, filepath |-> f, md5 |-> f]

\* Three files of three plants were built over a database that held Acer
\* and Betula under other files, and the file was read again.
C30_Witness ==
  /\ pc = "reloaded"
  /\ LibraryOfPlants
  /\ Len(lib) = 3
  /\ outs[1].name = "Betula"
  /\ outs[2].name = "Quercus"
  /\ outs[3].name = "Acer"
  /\ db_plant_count(db) = 3

\* ------------------------- claims on the staging record and the templates
\* C31: while the mode is ADD the staging record's batch_mode is false, and
\* Load Plant makes exactly one new template and one new instance.
C31_AddNotBatch ==
  [][/\ thicket_ui_mode = "ADD" => ~Get(wm_thicket, "batch_mode")
     /\ LoadPlant =>
          /\ Cardinality(DOMAIN instances') = Cardinality(DOMAIN instances) + 1
          /\ Cardinality(DOMAIN collections') = Cardinality(DOMAIN collections) + 1]_vars

\* C32: while the mode is EDIT, the instance Edit Plant seeded the staging
\* record from is the active object, so Update is never applied with a
\* record seeded from another instance.
C32_SeededFromActive ==
  thicket_ui_mode = "EDIT" => seeded = active

\* The templates of the selected managed instances, which Update supersedes.
Superseded == {instances[p] : p \in Plants(Scene)}

Users(inst, t) == {i \in DOMAIN inst : inst[i] = t}

\* C33: Update calls the engine once for each distinct template among the
\* selected managed instances; afterwards the instances are the same, all
\* former users of a superseded template reference one new template, each
\* other instance and template is as it was, and no other template exists.
C33_UpdateOncePerTemplate ==
  [][(UpdatePlant /\ is_thicket_instance(Scene, active)) =>
       /\ UpdateLoop(Scene, SetToSeq(selected), {}, wm_thicket).calls
            = Cardinality(Superseded)
       /\ DOMAIN instances' = DOMAIN instances
       /\ \A t \in Superseded :
            \E n \in DOMAIN collections' :
               Users(instances', n) = Users(instances, t)
       /\ \A n \in DOMAIN collections' :
            \/ \E t \in Superseded : Users(instances', n) = Users(instances, t)
            \/ /\ n \in DOMAIN collections \ Superseded
               /\ collections'[n] = collections[n]
               /\ Users(instances', n) = Users(instances, n)
       /\ Cardinality(DOMAIN collections') = Cardinality(DOMAIN collections)]_vars

\* What Edit Plant stages for a template: the template's values, and the
\* batch fields as Edit Plant sets them.
Staged(template_tp, k) ==
  IF k \in {"batch_model", "batch_qualifier"} THEN "UNCHANGED"
  ELSE IF k = "batch_name" THEN ""
  ELSE IF k \in {"batch_mode", "batch_use_lod"} THEN Get(wm_thicket, k)
  ELSE Get(template_tp, k)

\* A staged field differs from the value of the active instance's template.
Modified ==
  \E k \in Fields :
     Get(wm_thicket, k) # Staged(collections[instances[active]].thicket, k)

\* C34: in EDIT mode Update is enabled exactly when a staged field differs
\* from the template's value; right after Edit Plant no field differs and
\* Update is not enabled.
C34_ModificationDetection ==
  (thicket_ui_mode = "EDIT" /\ is_thicket_instance(Scene, active)) =>
     (UpdateEnabled <=> Modified)

\* The fields that describe a plant, as opposed to a batch edit.
PlantFields ==
  Fields \ {"batch_mode", "batch_name", "batch_model", "batch_qualifier",
            "batch_use_lod"}

\* C35: after Reset, and after Edit Plant, every plant field of the staging
\* record reads as the same field of the active instance's template does,
\* whatever the staging record held before.
C35_ResetDiscardsEdits ==
  [][((ResetPlant /\ is_thicket_instance(Scene, active)) \/ EditPlant) =>
       \A k \in PlantFields :
          Get(wm_thicket', k) = Get(collections[instances[active]].thicket, k)]_vars

\* The request an Update sends for the template t, and the objects it takes
\* from t.
RequestFor(t) == ResolvedRequest(wm_thicket, collections[t].thicket)
Taken(t) == ReuseObjects(wm_thicket, collections[t].thicket, collections[t].objects)
SamePlant(t) ==
  /\ RequestFor(t).filepath = DB[Get(collections[t].thicket, "name")].filepath
  /\ RequestFor(t).model = Get(collections[t].thicket, "model")
  /\ RequestFor(t).mesh_args["qualifier"] = Get(collections[t].thicket, "qualifier")

\* The object is taken over as the render object of the template it comes from.
Kept(t) == Taken(t)[2] = Last(collections[t].objects)
              /\ Get(wm_thicket, "render_lod") = Get(collections[t].thicket, "render_lod")

\* C36: on an Update that leaves plant, model and qualifier unchanged, an old
\* object becomes the viewport object only if the staged and the previous
\* viewport tier are PROXY and the staged tiers are distinct; an old
\* viewport object becomes the render object only if the new render tier is
\* PROXY, the previous viewport tier was PROXY and the previous render tier
\* was not; the object taken is a proxy, and no object is taken as both.
C36_ReuseAndPromotion ==
  (thicket_ui_mode = "EDIT" /\ is_thicket_instance(Scene, active)) =>
    \A t \in Superseded :
      SamePlant(t) =>
        /\ Taken(t)[1] # NoObj =>
              /\ Get(wm_thicket, "viewport_lod") = "PROXY"
              /\ Get(collections[t].thicket, "viewport_lod") = "PROXY"
              /\ Get(wm_thicket, "viewport_lod") # Get(wm_thicket, "render_lod")
              /\ objects[Taken(t)[1]].gen.kind = "proxy"
        /\ (Taken(t)[2] # NoObj /\ ~Kept(t)) =>
              /\ Get(wm_thicket, "render_lod") = "PROXY"
              /\ Get(collections[t].thicket, "viewport_lod") = "PROXY"
              /\ Get(collections[t].thicket, "render_lod") # "PROXY"
              /\ objects[Taken(t)[2]].gen.kind = "proxy"
        /\ Taken(t)[1] # NoObj => Taken(t)[1] # Taken(t)[2]

\* The templates of the managed instances.
Templates == {instances[i] : i \in {j \in DOMAIN instances : is_thicket_instance(Scene, j)}}

\* The template shares no object with another collection, as it does after
\* Load Plant and Update (only the copy Make Unique makes shares objects).
Unshared(t) ==
  \A u \in DOMAIN collections \ {t} :
     Range(collections[t].objects) \cap Range(collections[u].objects) = {}

\* C37: after Load Plant and Update, a template whose persisted viewport_lod differs from its render_lod
\* holds a viewport object hidden from final output and a render object
\* parented to it that is hidden from the viewport and from selection; any
\* other template holds one render object without a parent that is visible
\* in the viewport and in final output and is selectable.
C37_TemplateShape ==
  \A t \in Templates :
    Unshared(t) =>
    IF Get(collections[t].thicket, "viewport_lod") # Get(collections[t].thicket, "render_lod")
    THEN /\ Len(collections[t].objects) = 2
         /\ objects[collections[t].objects[1]].hide_render
         /\ objects[collections[t].objects[2]].parent = collections[t].objects[1]
         /\ objects[collections[t].objects[2]].hide_viewport
         /\ objects[collections[t].objects[2]].hide_select
    ELSE /\ Len(collections[t].objects) = 1
         /\ objects[collections[t].objects[1]].parent = NoObj
         /\ ~objects[collections[t].objects[1]].hide_viewport
         /\ ~objects[collections[t].objects[1]].hide_render
         /\ ~objects[collections[t].objects[1]].hide_select

\* C38: when Update or Make Unique returns, the selected objects are the ones
\* that were selected when it was invoked and the active object is the one
\* that was active then.
C38_SelectionRestored ==
  [][/\ (UpdatePlant /\ ~UpdateLoop(Scene, SetToSeq(selected), {}, wm_thicket).raised) =>
          (selected' = selected /\ active' = active)
     /\ MakeUnique => (selected' = selected /\ active' = active)]_vars

\* An Update has regenerated the template of two selected instances, and they
\* and the foreign object are selected as before, the first one active.
C38_Witness ==
  /\ selected = {1, 2, ForeignInst}
  /\ active = 1
  /\ thicket_ui_mode = "VIEW"
  /\ \A i \in {1, 2} : i \in DOMAIN instances /\ instances[i] \notin DOMAIN LinkedScene.col

\* The property records of the document: the staging record and the
\* persisted properties of every template.
Records == {wm_thicket} \cup {collections[t].thicket : t \in DOMAIN collections}

\* C39: for any two property records a and b, a == b holds exactly when
\* b == a holds, and a.eq_lod(b) holds exactly when b.eq_lod(a) holds.
C39_EqualitySymmetric ==
  \A a, b \in Records :
     /\ PropEq(a, b) <=> PropEq(b, a)
     /\ eq_lod(a, b) <=> eq_lod(b, a)

============================================================================
